---- MODULE Spec2Model ----
(***************************************************************************)
(* A state-machine model of blink-io/sq: the transaction helper RunInTx    *)
(* (tx.go), the write-side Column (column.go) and the read-side Row        *)
(* (row_column.go, and the later revision of the same file that is kept    *)
(* in types/types_test.go).                                                *)
(***************************************************************************)
EXTENDS Integers, Sequences, FiniteSets, TLC

VARIABLES
    txpc,       \* position inside RunInTx: idle, begin, fn, commit, defer, exit
    done,       \* RunInTx's local flag `done`
    txLog,      \* the calls made on db/tx/fn during the current RunInTx, in order
    fnOut,      \* what the callback did in the current run: none, nil, an error, panic
    txRet,      \* what the current RunInTx returns (or "panic" when it unwinds)
    txHist,     \* results of the RunInTx executions that have finished
    col,        \* the Column struct
    colHist,    \* history: the (field, value) pairs of the Set calls that returned
    colCalls,   \* history: number of Set calls made, failed ones included

    row,        \* the Row struct
    rowLast,    \* history: the last accessor call on row and its outcome
    rowLog,     \* history: the calls the row mapper made in its dry run, in order

    output,     \* the output a statement is rendered into: dialect, buf, args, params
    fmtLast,    \* history: the last Writef/WriteValue call on output and its outcome
    quote,      \* a QuoteIdentifier/EscapeQuote call: its inputs and its result
    upd,        \* an UpdateQuery and the result of rendering it
    spr,        \* a Sprintf call: its inputs and its result
    js          \* a types.JSON document, an Unmarshal target and the call's result

txVars == <<txpc, done, txLog, fnOut, txRet, txHist>>

colVars == <<col, colHist, colCalls>>

rowVars == <<row, rowLast, rowLog>>

sqlVars == <<output, fmtLast, quote, upd, spr, js>>

vars == <<txpc, done, txLog, fnOut, txRet, txHist, col, colHist, colCalls,
          row, rowLast, rowLog, output, fmtLast, quote, upd, spr, js>>

-----------------------------------------------------------------------------
(* Bounds *)

MaxRuns == 2

MaxSets == 4

-----------------------------------------------------------------------------
(* tx.go: RunInTx *)

FnErrors == {"ErrFn1", "ErrFn2"}

Count(log, ev) == Cardinality({i \in DOMAIN log : log[i] = ev})

TxInit ==
    /\ txpc = "idle"
    /\ done = FALSE
    /\ txLog = <<>>
    /\ fnOut = "none"
    /\ txRet = "none"
    /\ txHist = <<>>

\* A caller enters RunInTx.
TxCall ==
    /\ txpc = "idle"
    /\ Len(txHist) < MaxRuns
    /\ txpc' = "begin"
    /\ done' = FALSE
    /\ txLog' = <<>>
    /\ fnOut' = "none"
    /\ txRet' = "none"
    /\ UNCHANGED <<txHist, colVars, rowVars, sqlVars>>

\* tx, err := db.BeginTx(ctx, opts); if err != nil { return err }
\* (the deferred guard is not yet registered on this path)
TxBeginTx ==
    /\ txpc = "begin"
    /\ \E res \in {"nil", "ErrBegin"} :
        /\ txLog' = Append(txLog, "BeginTx")
        /\ IF res # "nil"
              THEN txpc' = "exit" /\ txRet' = res
              ELSE txpc' = "fn" /\ txRet' = txRet
    /\ UNCHANGED <<done, fnOut, txHist, colVars, rowVars, sqlVars>>

\* if err := fn(ctx, tx); err != nil { return err }; a panic unwinds through
\* the deferred function as well.
TxFn ==
    /\ txpc = "fn"
    /\ \E out \in {"nil", "panic"} \cup FnErrors :
        /\ fnOut' = out
        /\ txLog' = Append(txLog, "fn")
        /\ IF out = "nil"
              THEN txpc' = "commit" /\ txRet' = txRet
              ELSE txpc' = "defer" /\ txRet' = out
    /\ UNCHANGED <<done, txHist, colVars, rowVars, sqlVars>>

\* Mutant: done is set only once Commit has succeeded.
TxCommitDoneOnSuccess ==
    /\ txpc = "commit"
    /\ \E res \in {"nil", "ErrCommit"} :
        /\ done' = (res = "nil")
        /\ txLog' = Append(txLog, "Commit")
        /\ txRet' = res
        /\ txpc' = "defer"
    /\ UNCHANGED <<fnOut, txHist, colVars, rowVars, sqlVars>>

\* done = true; return tx.Commit()
TxCommit ==
    /\ txpc = "commit"
    /\ \E res \in {"nil", "ErrCommit"} :
        /\ done' = TRUE
        /\ txLog' = Append(txLog, "Commit")
        /\ txRet' = res
        /\ txpc' = "defer"
    /\ UNCHANGED <<fnOut, txHist, colVars, rowVars, sqlVars>>

\* Mutant: the deferred guard tests `done` instead of `!done`.
TxDeferredInverted ==
    /\ txpc = "defer"
    /\ txLog' = IF done THEN Append(txLog, "Rollback") ELSE txLog
    /\ txpc' = "exit"
    /\ UNCHANGED <<done, fnOut, txRet, txHist, colVars, rowVars, sqlVars>>

\* defer func() { if !done { _ = tx.Rollback() } }()
TxDeferred ==
    /\ txpc = "defer"
    /\ txLog' = IF ~done THEN Append(txLog, "Rollback") ELSE txLog
    /\ txpc' = "exit"
    /\ UNCHANGED <<done, fnOut, txRet, txHist, colVars, rowVars, sqlVars>>

\* RunInTx has returned (or unwound): the caller sees txRet.
TxReturn ==
    /\ txpc = "exit"
    /\ txHist' = Append(txHist, txRet)
    /\ txpc' = "idle"
    /\ UNCHANGED <<done, txLog, fnOut, txRet, colVars, rowVars, sqlVars>>

-----------------------------------------------------------------------------
(* column.go: Column *)

NilField == [id |-> 0, name |-> "nil"]

\* Field handles: two distinct handles (1 and 3) render to the same name, and
\* handle 4 renders to the empty string.
Fields ==
    { [id |-> 1, name |-> "a"], [id |-> 2, name |-> "b"],
      [id |-> 3, name |-> "a"], [id |-> 4, name |-> ""] }

SetValues == {"v1", "v2"}

\* toString(dialect, field): the SQL text the field renders to.
toString(field) == field.name

\* Set(field, value): the Assignment of value to field.
Assign(field, value) == [field |-> field, value |-> value]

NewColumn(isUpdate) ==
    [ isUpdate      |-> isUpdate,
      assignments   |-> <<>>,
      rowStarted    |-> FALSE,
      rowEnded      |-> FALSE,
      firstField    |-> "",
      insertColumns |-> <<>>,
      rowValues     |-> <<>> ]

\* Mutant: a new tuple is started on the recurrence of any known column,
\* not only of the first one.
setAnyRecurrence(c, field, value) ==
    LET name == toString(field) IN
    IF field = NilField THEN [panicked |-> TRUE, col |-> c]
    ELSE IF c.isUpdate THEN
        [panicked |-> FALSE,
         col |-> [c EXCEPT !.assignments = Append(@, Assign(field, value))]]
    ELSE IF name = "" THEN [panicked |-> TRUE, col |-> c]
    ELSE IF ~c.rowStarted THEN
        [panicked |-> FALSE,
         col |-> [c EXCEPT !.rowStarted = TRUE,
                           !.firstField = name,
                           !.insertColumns = Append(@, field),
                           !.rowValues = Append(@, <<value>>)]]
    ELSE IF \E i \in DOMAIN c.insertColumns : toString(c.insertColumns[i]) = name THEN
        [panicked |-> FALSE,
         col |-> [c EXCEPT !.rowEnded = TRUE,
                           !.rowValues = Append(@, <<value>>)]]
    ELSE
        [panicked |-> FALSE,
         col |-> [c EXCEPT
                    !.insertColumns = IF ~c.rowEnded THEN Append(@, field) ELSE @,
                    !.rowValues = [@ EXCEPT ![Len(c.rowValues)] = Append(@, value)]]]

\* Mutant: the column list keeps growing after the first row has ended.
setColumnsKeepGrowing(c, field, value) ==
    LET name == toString(field) IN
    IF field = NilField THEN [panicked |-> TRUE, col |-> c]
    ELSE IF c.isUpdate THEN
        [panicked |-> FALSE,
         col |-> [c EXCEPT !.assignments = Append(@, Assign(field, value))]]
    ELSE IF name = "" THEN [panicked |-> TRUE, col |-> c]
    ELSE IF ~c.rowStarted THEN
        [panicked |-> FALSE,
         col |-> [c EXCEPT !.rowStarted = TRUE,
                           !.firstField = name,
                           !.insertColumns = Append(@, field),
                           !.rowValues = Append(@, <<value>>)]]
    ELSE IF c.rowStarted /\ name = c.firstField THEN
        [panicked |-> FALSE,
         col |-> [c EXCEPT !.rowEnded = TRUE,
                           !.rowValues = Append(@, <<value>>)]]
    ELSE
        [panicked |-> FALSE,
         col |-> [c EXCEPT
                    !.insertColumns = Append(@, field),
                    !.rowValues = [@ EXCEPT ![Len(c.rowValues)] = Append(@, value)]]]

\* Mutant: in UPDATE mode the assignment is put in front of the list.
setPrepends(c, field, value) ==
    LET name == toString(field) IN
    IF field = NilField THEN [panicked |-> TRUE, col |-> c]
    ELSE IF c.isUpdate THEN
        [panicked |-> FALSE,
         col |-> [c EXCEPT !.assignments = <<Assign(field, value)>> \o @]]
    ELSE IF name = "" THEN [panicked |-> TRUE, col |-> c]
    ELSE IF ~c.rowStarted THEN
        [panicked |-> FALSE,
         col |-> [c EXCEPT !.rowStarted = TRUE,
                           !.firstField = name,
                           !.insertColumns = Append(@, field),
                           !.rowValues = Append(@, <<value>>)]]
    ELSE IF c.rowStarted /\ name = c.firstField THEN
        [panicked |-> FALSE,
         col |-> [c EXCEPT !.rowEnded = TRUE,
                           !.rowValues = Append(@, <<value>>)]]
    ELSE
        [panicked |-> FALSE,
         col |-> [c EXCEPT
                    !.insertColumns = IF ~c.rowEnded THEN Append(@, field) ELSE @,
                    !.rowValues = [@ EXCEPT ![Len(c.rowValues)] = Append(@, value)]]]

\* func (col *Column) set(field Field, value any)
set(c, field, value) ==
    LET name == toString(field) IN
    IF field = NilField THEN [panicked |-> TRUE, col |-> c]
    ELSE IF c.isUpdate THEN
        [panicked |-> FALSE,
         col |-> [c EXCEPT !.assignments = Append(@, Assign(field, value))]]
    ELSE IF name = "" THEN [panicked |-> TRUE, col |-> c]
    ELSE IF ~c.rowStarted THEN
        [panicked |-> FALSE,
         col |-> [c EXCEPT !.rowStarted = TRUE,
                           !.firstField = name,
                           !.insertColumns = Append(@, field),
                           !.rowValues = Append(@, <<value>>)]]
    ELSE IF c.rowStarted /\ name = c.firstField THEN
        [panicked |-> FALSE,
         col |-> [c EXCEPT !.rowEnded = TRUE,
                           !.rowValues = Append(@, <<value>>)]]
    ELSE
        [panicked |-> FALSE,
         col |-> [c EXCEPT
                    !.insertColumns = IF ~c.rowEnded THEN Append(@, field) ELSE @,
                    !.rowValues = [@ EXCEPT ![Len(c.rowValues)] = Append(@, value)]]]

ColInit ==
    /\ \E u \in BOOLEAN : col = NewColumn(u)
    /\ colHist = <<>>
    /\ colCalls = 0

ColIdle ==
    /\ col = NewColumn(FALSE)
    /\ colHist = <<>>
    /\ colCalls = 0

\* func (col *Column) Set(field Field, value any) { col.set(field, value) }
\* (the typed setters SetString, SetInt64, ... funnel into set the same way)
ColumnSet ==
    /\ colCalls < MaxSets
    /\ \E field \in Fields \cup {NilField}, value \in SetValues :
        LET r == set(col, field, value) IN
        /\ col' = r.col
        /\ colHist' = IF r.panicked THEN colHist
                      ELSE Append(colHist, [field |-> field, value |-> value])
        /\ colCalls' = colCalls + 1
    /\ UNCHANGED <<txVars, rowVars, sqlVars>>

-----------------------------------------------------------------------------
(* row_column.go: values and payloads *)

\* A Go value or driver (wire) value: a type tag t with a boolean, a number
\* or a byte string, whichever the type carries. A byte string is a sequence
\* of lexemes, each standing for the characters ByteLen counts.
Val(t, b, n, s) == [t |-> t, b |-> b, n |-> n, s |-> s]

Nil == Val("nil", FALSE, 0, <<>>)

BoolV(b) == Val("bool", b, 0, <<>>)

Int64V(n) == Val("int64", FALSE, n, <<>>)

Float64V(n) == Val("float64", FALSE, n, <<>>)

BytesV(s) == Val("bytes", FALSE, 0, s)

StringV(s) == Val("string", FALSE, 0, s)

TimeV(s) == Val("time", FALSE, 0, s)

\* Number of bytes of a lexeme: "2006-01-02" is 10 bytes, "15:04" 5, ":05" 3,
\* ".123" 4, "+08:00" 6, an enum name its length, anything else one byte.
LexLen(x) ==
    CASE x = "DATE" -> 10
      [] x = "HH:MM" -> 5
      [] x = ":SS" -> 3
      [] x = ".FRAC" -> 4
      [] x = "+OFF" -> 6
      [] x = "red" -> 3
      [] x = "green" -> 5
      [] OTHER -> 1

RECURSIVE ByteLen(_)
ByteLen(s) == IF s = <<>> THEN 0 ELSE LexLen(Head(s)) + ByteLen(Tail(s))

Rep(n, x) == [i \in 1..n |-> x]

\* strings.TrimSuffix(s, "Z")
TrimSuffixZ(s) ==
    IF s # <<>> /\ s[Len(s)] = "Z" THEN SubSeq(s, 1, Len(s) - 1) ELSE s

\* var sqliteTimestampFormats
sqliteTimestampFormats ==
    << <<"DATE", "SP", "HH:MM", ":SS", ".FRAC?", "+OFF">>,
       <<"DATE", "T", "HH:MM", ":SS", ".FRAC?", "+OFF">>,
       <<"DATE", "SP", "HH:MM", ":SS", ".FRAC?">>,
       <<"DATE", "T", "HH:MM", ":SS", ".FRAC?">>,
       <<"DATE", "SP", "HH:MM", ":SS">>,
       <<"DATE", "T", "HH:MM", ":SS">>,
       <<"DATE", "SP", "HH:MM">>,
       <<"DATE", "T", "HH:MM">>,
       <<"DATE">> >>

\* time.ParseInLocation(layout, s, time.UTC) succeeds: the layout's elements
\* match the input in order and nothing is left over. ".999999999" is an
\* optional fraction; a fraction right after the seconds is also accepted
\* when the layout has none there.
RECURSIVE LayoutMatches(_, _)
LayoutMatches(layout, s) ==
    IF layout = <<>> THEN s = <<>>
    ELSE IF Head(layout) = ".FRAC?" THEN
        IF s # <<>> /\ Head(s) = ".FRAC"
            THEN LayoutMatches(Tail(layout), Tail(s))
            ELSE LayoutMatches(Tail(layout), s)
    ELSE IF s = <<>> \/ Head(s) # Head(layout) THEN FALSE
    ELSE IF /\ Head(layout) = ":SS"
            /\ (Tail(layout) = <<>> \/ Head(Tail(layout)) # ".FRAC?")
            /\ Tail(s) # <<>>
            /\ Head(Tail(s)) = ".FRAC"
        THEN LayoutMatches(Tail(layout), Tail(Tail(s)))
    ELSE LayoutMatches(Tail(layout), Tail(s))

IsSeparator(x) == x \in {"SP", "T"}

\* The time.Time a successful parse yields: the date, clock, fraction and
\* offset the text carries.
ParsedTime(s) == TimeV(SelectSeq(s, LAMBDA x : ~IsSeparator(x)))

\* Mutant: only the first layout of the list is tried.
FirstFormatOnly(s, i) ==
    IF LayoutMatches(sqliteTimestampFormats[1], s) THEN 1 ELSE 0

\* for _, format := range sqliteTimestampFormats { if t, err := ...; err == nil { return t } }
\* from index i on: the index of the first layout that parses s, 0 when none does.
RECURSIVE FirstFormat(_, _)
FirstFormat(s, i) ==
    IF i > Len(sqliteTimestampFormats) THEN 0
    ELSE IF LayoutMatches(sqliteTimestampFormats[i], s) THEN i
    ELSE FirstFormat(s, i + 1)

IsNumberLex(x) == x \in {"0", "1", "2"}

\* The elements between the brackets of a list text: n ("," n)*, or nothing.
RECURSIVE ListElems(_)
ListElems(s) ==
    IF s = <<>> THEN [ok |-> TRUE, v |-> <<>>]
    ELSE IF ~IsNumberLex(Head(s)) THEN [ok |-> FALSE, v |-> <<>>]
    ELSE IF Tail(s) = <<>> THEN [ok |-> TRUE, v |-> <<Head(s)>>]
    ELSE IF Head(Tail(s)) # "," \/ Tail(Tail(s)) = <<>> THEN [ok |-> FALSE, v |-> <<>>]
    ELSE LET rest == ListElems(Tail(Tail(s))) IN
         [ok |-> rest.ok, v |-> IF rest.ok THEN <<Head(s)>> \o rest.v ELSE <<>>]

ParseList(open, close, s) ==
    IF Len(s) < 2 \/ s[1] # open \/ s[Len(s)] # close
        THEN [ok |-> FALSE, v |-> <<>>]
        ELSE ListElems(SubSeq(s, 2, Len(s) - 1))

IsHex(x) == x \in {"0", "1", "2", "a"}

\* The hyphenated form xxxxxxxx-xxxx-xxxx-xxxx-xxxxxxxxxxxx, or the same 32
\* hex digits without hyphens.
IsCanonicalUUID(s) ==
    \/ /\ Len(s) = 36
       /\ \A i \in 1..36 :
            IF i \in {9, 14, 19, 24} THEN s[i] = "-" ELSE IsHex(s[i])
    \/ /\ Len(s) = 32
       /\ \A i \in 1..32 : IsHex(s[i])

HexDigits(s) == SelectSeq(s, LAMBDA x : x # "-")

\* googleuuid.ParseBytes / googleuuid.Parse: the 16 bytes of a textual UUID,
\* each byte written as its two hex digits.
ParseUUID(s) ==
    IF IsCanonicalUUID(s)
        THEN [ok |-> TRUE,
              v |-> [i \in 1..16 |-> HexDigits(s)[2 * i - 1] \o HexDigits(s)[2 * i]]]
        ELSE [ok |-> FALSE, v |-> <<>>]

\* var uuid [16]byte
ZeroUUID == Rep(16, "00")

UUIDV(s) == Val("uuid", FALSE, 0, s)

\* destPtr.Enumerate() of the enum type used by the model.
EnumNames == <<"red", "green">>

\* getEnumIndex(name, names, typ): the index of name in names, -1 when absent.
getEnumIndex(name, names) ==
    IF \E i \in DOMAIN names : <<names[i]>> = name
        THEN (CHOOSE i \in DOMAIN names : <<names[i]>> = name) - 1
        ELSE 0 - 1

-----------------------------------------------------------------------------
(* row_column.go: Row *)

DialectPostgres == "postgres"

\* type Row struct. sqlRows is TRUE when a cursor is attached (non-nil).
\* columnIndex is the name -> index map of columns.
NewRow(dialect, static, attached, columns, values, scanDest) ==
    [ dialect       |-> dialect,
      sqlRows       |-> attached,
      runningIndex  |-> 0,
      fields        |-> <<>>,
      scanDest      |-> scanDest,
      queryIsStatic |-> static,
      columns       |-> columns,
      values        |-> values ]

\* index, ok := row.columnIndex[format]: 0 stands for !ok, else the 1-based index.
columnIndex(r, format) ==
    IF \E i \in DOMAIN r.columns : r.columns[i] = format
        THEN CHOOSE i \in DOMAIN r.columns : r.columns[i] = format
        ELSE 0

\* A scan target: the pointer appended to row.scanDest, with the Go type it
\* points to and what sqlRows.Scan stored in it.
Target(type, displayType) ==
    [type |-> type, displayType |-> displayType, valid |-> FALSE, v |-> Nil]

\* Expr(format, values...)
Expr(format) == [kind |-> "expr", name |-> format]

FieldOf(name) == [kind |-> "field", name |-> name]

\* What a call hands back: the value v (with its validity flag, for the
\* Null-aware accessors and the valid out-parameters) and err, the kind of
\* panic the call ended with ("none" when it returned).
Ret(v, valid) == [v |-> v, valid |-> valid]

NoRet == Ret(Nil, FALSE)

Res(r, ret, err) == [row |-> r, ret |-> ret, err |-> err]

\* markQueryIsStaticPanic: "cannot call X for static queries"
ModePanic(r) == Res(r, NoRet, "mode")

\* markNoColumnIndexPanic: "column X does not exist"
ColumnPanic(r) == Res(r, NoRet, "column")

\* row.fields = append(row.fields, field); row.scanDest = append(row.scanDest, target)
Register(r, field, target) ==
    [r EXCEPT !.fields = Append(@, field), !.scanDest = Append(@, target)]

\* Mutant: the deferred increment is missing.
AdvanceNot(r) == r

\* defer func() { row.runningIndex++ }()
Advance(r) == [r EXCEPT !.runningIndex = @ + 1]

\* row.scanDest[row.runningIndex].(*T): "index" when runningIndex is past the
\* end of scanDest, "assert" when the target is not a *T.
Fetch(r, type) ==
    IF r.runningIndex + 1 > Len(r.scanDest) THEN [err |-> "index", t |-> Target(type, "")]
    ELSE IF r.scanDest[r.runningIndex + 1].type # type
        THEN [err |-> "assert", t |-> r.scanDest[r.runningIndex + 1]]
    ELSE [err |-> "none", t |-> r.scanDest[r.runningIndex + 1]]

\* The live body shared by the Null*Field accessors: register a *T in the dry
\* run, return *scanDest in the scan pass.
NullField(r, field, type, zero) ==
    IF ~r.sqlRows THEN Res(Register(r, field, Target(type, "")), Ret(zero, FALSE), "none")
    ELSE LET f == Fetch(r, type) IN
         IF f.err # "none" THEN Res(Advance(r), NoRet, f.err)
         ELSE Res(Advance(r), Ret(f.t.v, f.t.valid), "none")

\* .V of a Null-aware result
V(res) == [res EXCEPT !.ret = Ret(res.ret.v, TRUE)]

\* func (row *Row) Value(format string, values ...any) any
Value(r, format) ==
    IF r.queryIsStatic THEN
        IF columnIndex(r, format) = 0 THEN ColumnPanic(r)
        ELSE Res(r, Ret(r.values[columnIndex(r, format)], TRUE), "none")
    ELSE V(NullField(r, Expr(format), "any", Nil))

\* func (row *Row) Bytes(format string, values ...any) []byte
\* func (row *Row) BytesField(field Binary) []byte (live part)
bytesLive(r, field) ==
    IF ~r.sqlRows THEN Res(Register(r, field, Target("nullBytes", "binary")), Ret(Nil, TRUE), "none")
    ELSE LET f == Fetch(r, "nullBytes") IN
         IF f.err # "none" THEN Res(Advance(r), NoRet, f.err)
         ELSE Res(Advance(r), Ret(IF f.t.valid THEN f.t.v ELSE Nil, TRUE), "none")

Bytes(r, format) ==
    IF r.queryIsStatic THEN
        IF columnIndex(r, format) = 0 THEN ColumnPanic(r)
        ELSE LET value == r.values[columnIndex(r, format)] IN
             CASE value.t = "bytes" -> Res(r, Ret(value, TRUE), "none")
               [] value.t = "string" -> Res(r, Ret(BytesV(value.s), TRUE), "none")
               [] value.t = "nil" -> Res(r, Ret(Nil, TRUE), "none")
               [] OTHER -> Res(r, NoRet, "type")
    ELSE bytesLive(r, Expr(format))

BytesField(r, field) ==
    IF r.queryIsStatic THEN ModePanic(r) ELSE bytesLive(r, field)

\* func (row *Row) NullBoolField(field Boolean) NullBool
NullBoolField(r, field) ==
    IF r.queryIsStatic THEN ModePanic(r)
    ELSE NullField(r, field, "NullBool", BoolV(FALSE))

\* func (row *Row) BoolField(field Boolean) bool
BoolField(r, field) ==
    IF r.queryIsStatic THEN ModePanic(r) ELSE V(NullBoolField(r, field))

\* The static switch shared by Row.Bool and Row.NullBool.
staticBool(r, format) ==
    IF columnIndex(r, format) = 0 THEN ColumnPanic(r)
    ELSE LET value == r.values[columnIndex(r, format)] IN
         CASE value.t = "int64" ->
                 IF value.n = 1 THEN Res(r, Ret(BoolV(TRUE), TRUE), "none")
                 ELSE IF value.n = 0 THEN Res(r, Ret(BoolV(FALSE), TRUE), "none")
                 ELSE Res(r, NoRet, "type")
           [] value.t = "bool" -> Res(r, Ret(BoolV(value.b), TRUE), "none")
           [] value.t = "bytes" ->
                 IF value.s = <<"1">> THEN Res(r, Ret(BoolV(TRUE), TRUE), "none")
                 ELSE IF value.s = <<"0">> THEN Res(r, Ret(BoolV(FALSE), TRUE), "none")
                 ELSE Res(r, NoRet, "type")
           [] value.t = "nil" -> Res(r, Ret(BoolV(FALSE), FALSE), "none")
           [] OTHER -> Res(r, NoRet, "type")

\* func (row *Row) Bool(format string, values ...any) bool
Bool(r, format) ==
    IF r.queryIsStatic THEN
        LET s == staticBool(r, format) IN IF s.err = "none" THEN V(s) ELSE s
    ELSE V(NullBoolField(r, Expr(format)))

\* func (row *Row) NullBool(format string, values ...any) NullBool
NullBool(r, format) ==
    IF r.queryIsStatic THEN staticBool(r, format)
    ELSE NullBoolField(r, Expr(format))

\* The numeric type parameters T the model instantiates the generic accessors with.
NumTypes == {"int", "uint8", "float64"}

\* type NumericType interface
NumericType ==
    {"float32", "float64", "int", "int8", "int16", "int32", "int64",
     "uint", "uint8", "uint16", "uint32", "uint64"}

IsNumeric(t) == t \in NumericType

\* func isIntegerType(kind reflect.Kind) bool
isIntegerType(T) ==
    T \in {"int", "int8", "int16", "int32", "int64",
           "uint", "uint8", "uint16", "uint32", "uint64"}

\* func isFloatType(kind reflect.Kind) bool
isFloatType(T) == T \in {"float32", "float64"}

IsUnsigned(T) == T \in {"uint", "uint8", "uint16", "uint32", "uint64"}

NumV(T, n) == Val(T, FALSE, n, <<>>)

\* sql.Null[T]
NullT(T) == "Null[" \o T \o "]"

\* strconv.ParseInt(string(bytes), 10, 64) / strconv.ParseFloat(string(bytes), 64)
ParseNumber(s) ==
    IF Len(s) = 1 /\ IsNumberLex(s[1])
        THEN [ok |-> TRUE, n |-> CHOOSE n \in 0..2 : ToString(n) = s[1]]
    ELSE IF Len(s) = 2 /\ s[1] = "-" /\ IsNumberLex(s[2])
        THEN [ok |-> TRUE, n |-> 0 - (CHOOSE n \in 0..2 : ToString(n) = s[2])]
    ELSE [ok |-> FALSE, n |-> 0]

\* func castNumericType[T NumericType](value any, valueKind reflect.Kind, convFunc ...) T
\* cast.ToUintE and its siblings reject a negative number.
castNumericType(T, n) ==
    IF IsUnsigned(T) /\ n < 0 THEN [ok |-> FALSE, v |-> NumV(T, 0)]
    ELSE [ok |-> TRUE, v |-> NumV(T, n)]

\* func handleNumericValue[T NumericType](value any) T
handleNumericValue(T, value) ==
    IF IsNumeric(value.t) \/ value.t = "bytes" THEN
        LET parsed == IF value.t = "bytes" THEN ParseNumber(value.s)
                      ELSE [ok |-> TRUE, n |-> value.n]
            cast == castNumericType(T, parsed.n)
        IN IF ~parsed.ok THEN [err |-> "type", v |-> NumV(T, 0)]
           ELSE IF ~cast.ok THEN [err |-> "type", v |-> NumV(T, 0)]
           ELSE [err |-> "none", v |-> cast.v]
    ELSE IF value.t = "nil" THEN [err |-> "none", v |-> NumV(T, 0)]
    ELSE [err |-> "type", v |-> NumV(T, 0)]

\* func NullNumericField[T NumericType](row *Row, field Number) sql.Null[T]
NullNumericField(r, T, field) == NullField(r, field, NullT(T), NumV(T, 0))

\* func NumericValue[T NumericType](row *Row, format string, values ...any) T
NumericValue(r, T, format) ==
    IF r.queryIsStatic THEN
        IF columnIndex(r, format) = 0 THEN ColumnPanic(r)
        ELSE LET h == handleNumericValue(T, r.values[columnIndex(r, format)]) IN
             IF h.err # "none" THEN Res(r, NoRet, h.err)
             ELSE Res(r, Ret(h.v, TRUE), "none")
    ELSE V(NullNumericField(r, T, Expr(format)))

\* func NullNumericValue[T NumericType](row *Row, format string, values ...any) sql.Null[T]
NullNumericValue(r, T, format) ==
    IF r.queryIsStatic THEN
        IF columnIndex(r, format) = 0 THEN ColumnPanic(r)
        ELSE IF r.values[columnIndex(r, format)].t = "nil"
            THEN Res(r, Ret(NumV(T, 0), FALSE), "none")
        ELSE NumericValue(r, T, format)
    ELSE NullNumericField(r, T, Expr(format))

\* func (row *Row) NullIntField(field Number) NullInt, and its siblings
NullXField(r, T, field) ==
    IF r.queryIsStatic THEN ModePanic(r) ELSE NullNumericField(r, T, field)

\* The Null[T] the plain XField accessor delegates to: IntField reads a
\* Null[int64], UintField a Null[int], Uint8Field a Null[int8].
FieldTargetType(T) ==
    CASE T = "int" -> "int64"
      [] T = "uint" -> "int"
      [] T = "uint8" -> "int8"
      [] OTHER -> T

\* The declared result type of XField: UintField returns int, Uint8Field int8.
FieldResultType(T) ==
    CASE T = "uint" -> "int"
      [] T = "uint8" -> "int8"
      [] OTHER -> T

\* func (row *Row) IntField(field Number) int, and its siblings
XField(r, T, field) ==
    IF r.queryIsStatic THEN ModePanic(r)
    ELSE LET res == NullXField(r, FieldTargetType(T), field) IN
         IF res.err # "none" THEN res
         ELSE [res EXCEPT !.ret = Ret(NumV(FieldResultType(T), res.ret.v.n), TRUE)]

\* func (row *Row) NullStringField(field String) NullString
NullStringField(r, field) ==
    IF r.queryIsStatic THEN ModePanic(r)
    ELSE NullField(r, field, "NullString", StringV(<<>>))

\* func (row *Row) StringField(field String) string
StringField(r, field) ==
    IF r.queryIsStatic THEN ModePanic(r) ELSE V(NullStringField(r, field))

\* func (row *Row) String(format string, values ...any) string
String(r, format) ==
    IF r.queryIsStatic THEN
        IF columnIndex(r, format) = 0 THEN ColumnPanic(r)
        ELSE LET value == r.values[columnIndex(r, format)] IN
             CASE value.t \in {"bytes", "string"} -> Res(r, Ret(StringV(value.s), TRUE), "none")
               [] value.t = "nil" -> Res(r, Ret(StringV(<<>>), TRUE), "none")
               [] OTHER -> Res(r, NoRet, "type")
    ELSE V(NullStringField(r, Expr(format)))

\* func (row *Row) NullString(format string, values ...any) NullString
NullString(r, format) ==
    IF r.queryIsStatic THEN
        IF columnIndex(r, format) = 0 THEN ColumnPanic(r)
        ELSE LET value == r.values[columnIndex(r, format)] IN
             CASE value.t \in {"bytes", "string"} -> Res(r, Ret(StringV(value.s), TRUE), "none")
               [] value.t = "nil" -> Res(r, Ret(StringV(<<>>), FALSE), "none")
               [] OTHER -> Res(r, NoRet, "type")
    ELSE NullStringField(r, Expr(format))

\* func (row *Row) NullTimeField(field Time) NullTime
NullTimeField(r, field) ==
    IF r.queryIsStatic THEN ModePanic(r)
    ELSE NullField(r, field, "NullTime", TimeV(<<>>))

\* func (row *Row) TimeField(field Time) time.Time
TimeField(r, field) ==
    IF r.queryIsStatic THEN ModePanic(r) ELSE V(NullTimeField(r, field))

\* s := strings.TrimSuffix(string(value), "Z"); for _, format := range
\* sqliteTimestampFormats { ... }; panic(...)
parseTimestamp(r, bytes) ==
    LET s == TrimSuffixZ(bytes) IN
    IF FirstFormat(s, 1) # 0 THEN Res(r, Ret(ParsedTime(s), TRUE), "none")
    ELSE Res(r, NoRet, "type")

\* func (row *Row) Time(format string, values ...any) time.Time
Time(r, format) ==
    IF r.queryIsStatic THEN
        IF columnIndex(r, format) = 0 THEN ColumnPanic(r)
        ELSE LET value == r.values[columnIndex(r, format)] IN
             CASE value.t = "bytes" -> parseTimestamp(r, value.s)
               [] value.t = "time" -> Res(r, Ret(value, TRUE), "none")
               [] value.t = "nil" -> Res(r, Ret(TimeV(<<>>), TRUE), "none")
               [] OTHER -> Res(r, NoRet, "type")
    ELSE V(NullTimeField(r, Expr(format)))

\* func (row *Row) NullTime(format string, values ...any) NullTime
NullTime(r, format) ==
    IF r.queryIsStatic THEN
        IF columnIndex(r, format) = 0 THEN ColumnPanic(r)
        ELSE LET value == r.values[columnIndex(r, format)] IN
             CASE value.t = "bytes" -> parseTimestamp(r, value.s)
               [] value.t = "string" -> Res(r, NoRet, "type")
               [] value.t = "time" -> Res(r, Ret(value, TRUE), "none")
               [] value.t = "nil" -> Res(r, Ret(TimeV(<<>>), FALSE), "none")
               [] OTHER -> Res(r, NoRet, "type")
    ELSE NullTimeField(r, Expr(format))

\* The destPtr arguments the model passes to Scan/ScanField: "*custom" is a
\* pointer to a type the switch does not list, "value" is not a pointer.
ScanDests == {"*bool", "*sql.NullBool", "*uint8", "*string", "*custom", "value"}

\* scan, dry run: the type of the target appended for destPtr
\* ("" when the default branch rejects a non-pointer).
scanRegisters(destPtr) ==
    CASE destPtr \in {"*bool", "*sql.NullBool", "*NullBool"} -> "NullBool"
      [] destPtr \in {"*uint8", "*NullUint8"} -> NullT("int8")
      [] destPtr \in {"*string", "*sql.NullString"} -> "NullString"
      [] destPtr = "*custom" -> "custom"
      [] OTHER -> ""

\* scan, scan pass: the type row.scanDest[row.runningIndex] is asserted to have.
scanAsserts(destPtr) ==
    CASE destPtr \in {"*bool", "*NullBool"} -> "NullBool"
      [] destPtr = "*sql.NullBool" -> "sql.NullBool"
      [] destPtr \in {"*uint8", "*NullUint8"} -> NullT("uint8")
      [] destPtr \in {"*string", "*NullString"} -> "NullString"
      [] destPtr = "*sql.NullString" -> "sql.NullString"
      [] OTHER -> "custom"

\* func (row *Row) scan(destPtr any, field Field, skip int)
scan(r, destPtr, field) ==
    IF ~r.sqlRows THEN
        IF scanRegisters(destPtr) = ""
            THEN Res([r EXCEPT !.fields = Append(@, field)], NoRet, "dest")
            ELSE Res(Register(r, field, Target(scanRegisters(destPtr), "")), NoRet, "none")
    ELSE IF destPtr = "value" THEN Res(Advance(r), NoRet, "dest")
    ELSE LET f == Fetch(r, scanAsserts(destPtr)) IN
         IF f.err # "none" THEN Res(Advance(r), NoRet, f.err)
         ELSE Res(Advance(r),
                  Ret(f.t.v, IF destPtr \in {"*bool", "*uint8", "*string"} THEN TRUE ELSE f.t.valid),
                  "none")

\* func (row *Row) Scan(destPtr any, format string, values ...any)
Scan(r, destPtr, format) ==
    IF r.queryIsStatic THEN ModePanic(r) ELSE scan(r, destPtr, Expr(format))

\* func (row *Row) ScanField(destPtr any, field Field)
ScanField(r, destPtr, field) ==
    IF r.queryIsStatic THEN ModePanic(r) ELSE scan(r, destPtr, field)

\* The destPtr arguments the model passes to the array accessors.
ArrayDests == {"*[]int64", "*[]int", "*map", "[]int64"}

IsPtr(destPtr) == destPtr \in {"*[]int64", "*[]int", "*map", "*intEnum", "*stringEnum",
                               "*structEnum", "*[16]byte", "*UUID", "*[8]byte"}

IsArrayDest(destPtr) == destPtr \in {"*[]int64", "*[]int"}

ListV(destPtr, elems) == Val(destPtr, FALSE, 0, elems)

\* json.Unmarshal(bytes, destPtr) of a JSON list into a slice.
jsonUnmarshalList(destPtr, bytes) ==
    IF ~IsArrayDest(destPtr) THEN [ok |-> FALSE, v |-> Nil]
    ELSE LET p == ParseList("[", "]", bytes) IN
         [ok |-> p.ok, v |-> IF p.ok THEN ListV(destPtr, p.v) ELSE Nil]

JSONV == Val("map", FALSE, 0, <<>>)

\* json.Unmarshal(bytes, destPtr): a JSON object into a map, a JSON list into
\* a slice; anything else is an error.
jsonUnmarshal(destPtr, bytes) ==
    IF destPtr = "*map"
        THEN [ok |-> bytes = <<"{", "}">>, v |-> IF bytes = <<"{", "}">> THEN JSONV ELSE Nil]
        ELSE jsonUnmarshalList(destPtr, bytes)

\* pqarray.Int64Array.Scan(bytes): the Postgres text form {1,2}.
pqarrayScan(destPtr, bytes) ==
    LET p == ParseList("{", "}", bytes) IN
    [ok |-> p.ok, v |-> IF p.ok THEN ListV(destPtr, p.v) ELSE Nil]

\* func (row *Row) array(destPtr any, field Array, skip int)
array(r, destPtr, field) ==
    IF ~r.sqlRows THEN
        IF ~IsPtr(destPtr) THEN Res(r, NoRet, "dest")
        ELSE IF r.dialect = DialectPostgres /\ ~IsArrayDest(destPtr) THEN Res(r, NoRet, "dest")
        ELSE Res(Register(r, field, Target("nullBytes", "string")), NoRet, "none")
    ELSE LET f == Fetch(r, "nullBytes") IN
         IF f.err # "none" THEN Res(Advance(r), NoRet, f.err)
         ELSE IF ~f.t.valid THEN Res(Advance(r), NoRet, "none")
         ELSE IF r.dialect # DialectPostgres THEN
             LET u == jsonUnmarshal(destPtr, f.t.v.s) IN
             IF ~u.ok THEN Res(Advance(r), NoRet, "parse")
             ELSE Res(Advance(r), Ret(u.v, TRUE), "none")
         ELSE IF ~IsArrayDest(destPtr) THEN Res(Advance(r), NoRet, "dest")
         ELSE LET a == pqarrayScan(destPtr, f.t.v.s) IN
              IF ~a.ok THEN Res(Advance(r), NoRet, "parse")
              ELSE Res(Advance(r), Ret(a.v, TRUE), "none")

\* func (row *Row) Array(destPtr any, format string, values ...any)
Array(r, destPtr, format) == array(r, destPtr, Expr(format))

\* func (row *Row) ArrayField(destPtr any, field Array)
ArrayField(r, destPtr, field) ==
    IF r.queryIsStatic THEN ModePanic(r) ELSE array(r, destPtr, field)

\* The destPtr arguments the model passes to the enum accessors.
EnumDests == {"*intEnum", "*stringEnum", "*structEnum", "intEnum"}

\* The enum value written through destPtr.
EnumV(destPtr, enumIndex, name) ==
    CASE destPtr = "*intEnum" -> NumV("intEnum", enumIndex)
      [] destPtr = "*stringEnum" -> Val("stringEnum", FALSE, 0, name)
      [] OTHER -> Nil

\* func (row *Row) enum(destPtr Enumeration, field Enum, skip int)
enum(r, destPtr, field) ==
    IF ~r.sqlRows THEN
        IF ~IsPtr(destPtr) THEN Res(r, NoRet, "dest")
        ELSE IF destPtr \in {"*intEnum", "*stringEnum"}
            THEN Res(Register(r, field, Target("NullString", "")), NoRet, "none")
        ELSE Res([r EXCEPT !.fields = Append(@, field)], NoRet, "dest")
    ELSE LET f == Fetch(r, "NullString")
             enumIndex == IF f.t.valid THEN getEnumIndex(f.t.v.s, EnumNames) ELSE 0
         IN IF f.err # "none" THEN Res(Advance(r), NoRet, f.err)
            ELSE IF ~IsPtr(destPtr) THEN Res(Advance(r), NoRet, "dest")
            ELSE IF enumIndex < 0 THEN Res(Advance(r), NoRet, "parse")
            ELSE Res(Advance(r), Ret(EnumV(destPtr, enumIndex, f.t.v.s), TRUE), "none")

\* func (row *Row) Enum(destPtr Enumeration, format string, values ...any)
Enum(r, destPtr, format) == enum(r, destPtr, Expr(format))

\* func (row *Row) EnumField(destPtr Enumeration, field Enum)
EnumField(r, destPtr, field) ==
    IF r.queryIsStatic THEN ModePanic(r) ELSE enum(r, destPtr, field)

\* The destPtr arguments the model passes to the UUID accessors.
UUIDDests == {"*[16]byte", "*UUID", "*[8]byte", "[16]byte"}

\* func (row *Row) uuid(destPtr any, field UUID, skip int)
uuid(r, destPtr, field) ==
    IF ~r.sqlRows THEN
        IF destPtr # "*[16]byte" /\ ~IsPtr(destPtr) THEN Res(r, NoRet, "dest")
        ELSE IF destPtr \notin {"*[16]byte", "*UUID"} THEN Res(r, NoRet, "dest")
        ELSE Res(Register(r, field, Target("nullBytes", "uuid")), NoRet, "none")
    ELSE LET f == Fetch(r, "nullBytes")
             bytes == f.t.v.s
             p == ParseUUID(bytes)
         IN IF f.err # "none" THEN Res(Advance(r), NoRet, f.err)
            ELSE IF ByteLen(bytes) = 16 THEN
                IF destPtr \in {"*[16]byte", "*UUID"}
                    THEN Res(Advance(r), Ret(UUIDV(bytes), TRUE), "none")
                    ELSE Res(Advance(r), NoRet, "dest")
            ELSE IF ByteLen(bytes) > 0 /\ ~p.ok THEN Res(Advance(r), NoRet, "parse")
            ELSE IF destPtr \notin {"*[16]byte", "*UUID"} THEN Res(Advance(r), NoRet, "dest")
            ELSE Res(Advance(r),
                     Ret(UUIDV(IF ByteLen(bytes) > 0 THEN p.v ELSE ZeroUUID), TRUE), "none")

\* func (row *Row) UUID(destPtr any, format string, values ...any)
UUID(r, destPtr, format) == uuid(r, destPtr, Expr(format))

\* func (row *Row) UUIDField(destPtr any, field UUID)
UUIDField(r, destPtr, field) ==
    IF r.queryIsStatic THEN ModePanic(r) ELSE uuid(r, destPtr, field)

\* The destPtr arguments the model passes to the JSON accessors.
JSONDests == {"*map", "map"}


\* func (row *Row) json(destPtr any, field JSON, skip int)
json(r, destPtr, field) ==
    IF ~r.sqlRows THEN
        IF ~IsPtr(destPtr) THEN Res(r, NoRet, "dest")
        ELSE Res(Register(r, field, Target("nullBytes", "string")), NoRet, "none")
    ELSE LET f == Fetch(r, "nullBytes")
             u == jsonUnmarshal(destPtr, f.t.v.s)
         IN IF f.err # "none" THEN Res(Advance(r), NoRet, f.err)
            ELSE IF ~f.t.valid THEN Res(Advance(r), NoRet, "none")
            ELSE IF ~u.ok THEN Res(Advance(r), NoRet, "parse")
            ELSE Res(Advance(r), Ret(u.v, TRUE), "none")

\* func (row *Row) JSON(destPtr any, format string, values ...any)
JSON(r, destPtr, format) ==
    IF r.queryIsStatic THEN ModePanic(r) ELSE json(r, destPtr, Expr(format))

\* func (row *Row) JSONField(destPtr any, field JSON)
JSONField(r, destPtr, field) ==
    IF r.queryIsStatic THEN ModePanic(r) ELSE json(r, destPtr, field)

-----------------------------------------------------------------------------
(* types/types_test.go: the later revision of Row. Its accessors that differ *)
(* from row_column.go are modelled here; a name that row_column.go also      *)
(* uses carries the prefix types_.                                           *)

\* func handlePostgresArray(destPtr any, data []byte, skip int)
handlePostgresArray(destPtr, data) ==
    IF ~IsArrayDest(destPtr) THEN [err |-> "dest", v |-> Nil]
    ELSE LET a == pqarrayScan(destPtr, data) IN
         IF ~a.ok THEN [err |-> "parse", v |-> Nil] ELSE [err |-> "none", v |-> a.v]

\* func (row *Row) array(destPtr any, valid *bool, field Array, skip int)
types_array(r, destPtr, field) ==
    IF ~r.sqlRows THEN
        IF ~IsPtr(destPtr) THEN Res(r, NoRet, "dest")
        ELSE IF r.dialect = DialectPostgres /\ ~IsArrayDest(destPtr) THEN Res(r, NoRet, "dest")
        ELSE Res(Register(r, field, Target("nullBytes", "string")), NoRet, "none")
    ELSE LET f == Fetch(r, "nullBytes") IN
         IF f.err # "none" THEN Res(Advance(r), NoRet, f.err)
         ELSE IF ~f.t.valid THEN Res(Advance(r), Ret(Nil, FALSE), "none")
         ELSE IF r.dialect # DialectPostgres THEN
             LET u == jsonUnmarshal(destPtr, f.t.v.s) IN
             IF ~u.ok THEN Res(Advance(r), NoRet, "parse")
             ELSE Res(Advance(r), Ret(u.v, f.t.valid), "none")
         ELSE LET h == handlePostgresArray(destPtr, f.t.v.s) IN
              IF h.err # "none" THEN Res(Advance(r), NoRet, h.err)
              ELSE Res(Advance(r), Ret(h.v, f.t.valid), "none")

\* func (row *Row) NullArray(destPtr any, valid *bool, format string, values ...any)
\* The caller's valid starts out false (var f bool in NullArrayFrom).
NullArray(r, destPtr, format) ==
    IF r.queryIsStatic THEN
        IF ~IsPtr(destPtr) THEN Res(r, NoRet, "dest")
        ELSE IF columnIndex(r, format) = 0 THEN ColumnPanic(r)
        ELSE LET value == r.values[columnIndex(r, format)] IN
             IF value.t = "nil" THEN Res(r, Ret(Nil, FALSE), "none")
             ELSE IF r.dialect = DialectPostgres /\ ~IsArrayDest(destPtr) THEN Res(r, NoRet, "dest")
             ELSE IF value.t \notin {"bytes", "string"} THEN Res(r, NoRet, "type")
             ELSE IF r.dialect # DialectPostgres THEN
                 LET u == jsonUnmarshal(destPtr, value.s) IN
                 IF ~u.ok THEN Res(r, NoRet, "parse")
                 ELSE Res(r, Ret(u.v, FALSE), "none")
             ELSE LET h == handlePostgresArray(destPtr, value.s) IN
                  IF h.err # "none" THEN Res(r, NoRet, h.err)
                  ELSE Res(r, Ret(h.v, TRUE), "none")
    ELSE types_array(r, destPtr, Expr(format))

\* func (row *Row) NullArrayField(destPtr any, valid *bool, field Array)
NullArrayField(r, destPtr, field) ==
    IF r.queryIsStatic THEN ModePanic(r) ELSE types_array(r, destPtr, field)

\* func (row *Row) enum(destPtr Enumeration, valid *bool, field Enum, skip int)
types_enum(r, destPtr, field) ==
    LET res == enum(r, destPtr, field) IN
    IF r.sqlRows /\ res.err = "none"
        THEN [res EXCEPT !.ret = Ret(res.ret.v, Fetch(r, "NullString").t.valid)]
        ELSE res

\* cast.ToString(value) of an integer or a string.
castToString(value) ==
    IF value.t = "string" THEN value.s
    ELSE IF value.n < 0 THEN <<"-", ToString(0 - value.n)>>
    ELSE <<ToString(value.n)>>

\* func (row *Row) NullEnum(destPtr Enumeration, valid *bool, format string, values ...any)
NullEnum(r, destPtr, format) ==
    IF r.queryIsStatic THEN
        IF columnIndex(r, format) = 0 THEN ColumnPanic(r)
        ELSE LET value == r.values[columnIndex(r, format)]
                 name == castToString(value)
                 enumIndex == getEnumIndex(name, EnumNames)
             IN IF value.t = "nil" THEN Res(r, Ret(Nil, FALSE), "none")
                ELSE IF ~(isIntegerType(value.t) \/ value.t = "string") THEN Res(r, NoRet, "type")
                ELSE IF ~IsPtr(destPtr) THEN Res(r, NoRet, "dest")
                ELSE IF enumIndex < 0 THEN Res(r, NoRet, "parse")
                ELSE Res(r, Ret(EnumV(destPtr, enumIndex, name), TRUE), "none")
    ELSE types_enum(r, destPtr, Expr(format))

\* func (row *Row) NullEnumField(destPtr Enumeration, valid *bool, field Enum)
NullEnumField(r, destPtr, field) ==
    IF r.queryIsStatic THEN ModePanic(r) ELSE types_enum(r, destPtr, field)

\* func (row *Row) uuid(field UUID, skip int) NullUUID
types_uuid(r, field) ==
    IF ~r.sqlRows THEN
        Res(Register(r, field, Target("nullBytes", "uuid")), Ret(UUIDV(ZeroUUID), FALSE), "none")
    ELSE LET f == Fetch(r, "nullBytes")
             bytes == f.t.v.s
             p == ParseUUID(bytes)
         IN IF f.err # "none" THEN Res(Advance(r), NoRet, f.err)
            ELSE IF ByteLen(bytes) = 16
                THEN Res(Advance(r), Ret(UUIDV(bytes), f.t.valid), "none")
            ELSE IF ByteLen(bytes) > 0 /\ ~p.ok THEN Res(Advance(r), NoRet, "parse")
            ELSE Res(Advance(r),
                     Ret(UUIDV(IF ByteLen(bytes) > 0 THEN p.v ELSE ZeroUUID), f.t.valid), "none")

\* func (row *Row) NullUUID(format string, values ...any) NullUUID
NullUUID(r, format) ==
    IF r.queryIsStatic THEN
        IF columnIndex(r, format) = 0 THEN ColumnPanic(r)
        ELSE LET value == r.values[columnIndex(r, format)]
                 p == ParseUUID(value.s)
             IN CASE value.t = "bytes" ->
                        IF ByteLen(value.s) # 16 THEN Res(r, NoRet, "type")
                        ELSE IF ~p.ok THEN Res(r, NoRet, "parse")
                        ELSE Res(r, Ret(UUIDV(p.v), TRUE), "none")
                  [] value.t = "string" ->
                        IF ~p.ok THEN Res(r, NoRet, "parse")
                        ELSE Res(r, Ret(UUIDV(p.v), TRUE), "none")
                  [] OTHER -> Res(r, NoRet, "type")
    ELSE types_uuid(r, Expr(format))

\* func (row *Row) UUID(format string, values ...any) types.UUID
types_UUID(r, format) ==
    LET res == NullUUID(r, format) IN IF res.err = "none" THEN V(res) ELSE res

\* func (row *Row) NullUUIDField(field UUID) NullUUID
NullUUIDField(r, field) ==
    IF r.queryIsStatic THEN ModePanic(r) ELSE types_uuid(r, field)

\* func (row *Row) NullBytes(format string, values ...any) NullBytes
NullBytes(r, format) ==
    LET res == Bytes(r, format) IN
    IF res.err # "none" THEN res
    ELSE [res EXCEPT !.ret = Ret(res.ret.v, res.ret.v # Nil)]

\* func (row *Row) json(field JSON, skip int) NullJSON
types_json(r, field) ==
    IF ~r.sqlRows THEN
        Res(Register(r, field, Target("nullBytes", "binary")), Ret(Nil, FALSE), "none")
    ELSE LET f == Fetch(r, "nullBytes")
             u == jsonUnmarshal("*map", f.t.v.s)
         IN IF f.err # "none" THEN Res(Advance(r), NoRet, f.err)
            ELSE IF ~f.t.valid THEN Res(Advance(r), Ret(Nil, FALSE), "none")
            ELSE IF ~u.ok THEN Res(Advance(r), NoRet, "parse")
            ELSE Res(Advance(r), Ret(u.v, TRUE), "none")

\* func (row *Row) NullJSON(format string, values ...any) NullJSON
NullJSON(r, format) ==
    IF r.queryIsStatic THEN
        IF columnIndex(r, format) = 0 THEN ColumnPanic(r)
        ELSE LET value == r.values[columnIndex(r, format)]
                 u == jsonUnmarshal("*map", value.s)
             IN IF value.t = "nil" THEN Res(r, Ret(Nil, FALSE), "none")
                ELSE IF value.t \notin {"bytes", "string"} THEN Res(r, NoRet, "type")
                ELSE IF ~u.ok THEN Res(r, NoRet, "parse")
                ELSE Res(r, Ret(u.v, TRUE), "none")
    ELSE types_json(r, Expr(format))

\* func (row *Row) JSON(format string, values ...any) types.JSON
types_JSON(r, format) ==
    LET res == NullJSON(r, format) IN IF res.err = "none" THEN V(res) ELSE res

-----------------------------------------------------------------------------
(* Driver values and the cursor *)

Raw16 == Rep(16, "ab")

Canonical36 ==
    [i \in 1..36 |-> IF i \in {9, 14, 19, 24} THEN "-" ELSE IF i % 2 = 0 THEN "1" ELSE "a"]

JSONList == <<"[", "1", ",", "2", "]">>

PostgresList == <<"{", "1", ",", "2", "}">>

Timestamp == <<"DATE", "SP", "HH:MM", ":SS">>

TimestampZ == <<"DATE", "T", "HH:MM", ":SS", ".FRAC", "Z">>

\* The byte strings a driver hands over, by the kind of column they come from.
ArrayPayloads == <<JSONList, PostgresList, <<"x">> >>

UUIDPayloads == <<Canonical36, Raw16, <<>>, <<"a", "1">> >>

EnumPayloads == << <<"red">>, <<"green">>, <<"x">>, <<>> >>

TimePayloads == <<Timestamp, TimestampZ, <<"DATE">>, <<"DATE", "HH:MM">> >>

OtherPayloads == << <<"1">>, <<"0">>, <<"-", "1">>, <<"{", "}">> >>

Range(f) == {f[i] : i \in DOMAIN f}

Kind(op) ==
    CASE op \in {"Array", "ArrayField", "NullArray", "NullArrayField"} -> "array"
      [] op \in {"UUID", "UUIDField", "NullUUID", "NullUUIDField", "types_UUID"} -> "uuid"
      [] op \in {"Enum", "EnumField", "NullEnum", "NullEnumField"} -> "enum"
      [] op \in {"Time", "TimeField", "NullTime", "NullTimeField"} -> "time"
      [] OTHER -> "other"

\* The values a column read by an accessor of the given kind may carry, the
\* valid ones first.
WireValues(kind) ==
    CASE kind = "array" ->
            <<BytesV(JSONList), Nil, BytesV(PostgresList), StringV(JSONList), BytesV(<<"x">>)>>
      [] kind = "uuid" ->
            <<BytesV(Canonical36), Nil, BytesV(Raw16), BytesV(<<>>), StringV(<<>>),
              BytesV(<<"a", "1">>), StringV(Canonical36)>>
      [] kind = "enum" ->
            <<StringV(<<"red">>), Nil, BytesV(<<"green">>), StringV(<<"x">>), StringV(<<>>),
              Int64V(1)>>
      [] kind = "time" ->
            <<TimeV(<<"DATE", "HH:MM", ":SS">>), Nil, BytesV(Timestamp)>>
      [] OTHER ->
            <<Int64V(1), Nil, BytesV(<<"1">>), BoolV(TRUE), Int64V(0 - 1), BytesV(<<"{", "}">>),
              StringV(<<"red">>), Float64V(2)>>

\* Every value a static snapshot column may carry.
StaticValues ==
    {Nil, BoolV(TRUE), Int64V(1), Int64V(2), Int64V(0 - 1), Float64V(1),
     TimeV(<<"DATE", "HH:MM", ":SS">>)}
    \cup {BytesV(s) : s \in Range(ArrayPayloads) \cup Range(UUIDPayloads) \cup Range(EnumPayloads)
                            \cup Range(TimePayloads) \cup Range(OtherPayloads)}
    \cup {StringV(s) : s \in {JSONList, PostgresList, Canonical36, <<>>, <<"red">>, Timestamp,
                                <<"1">>, <<"{", "}">>}}

\* func (n *nullBytes) Scan(value any) error
nullBytesScan(t, value) ==
    IF value.t = "nil" THEN [ok |-> TRUE, t |-> [t EXCEPT !.v = BytesV(<<>>), !.valid = FALSE]]
    ELSE IF value.t \in {"string", "bytes"}
        THEN [ok |-> TRUE, t |-> [t EXCEPT !.v = BytesV(value.s), !.valid = TRUE]]
    ELSE [ok |-> FALSE, t |-> [t EXCEPT !.valid = TRUE]]

\* The zero value a sql.Null[T] holds after scanning NULL.
ZeroOf(type) ==
    CASE type = "NullBool" -> BoolV(FALSE)
      [] type = "NullString" -> StringV(<<>>)
      [] type = "NullTime" -> TimeV(<<>>)
      [] type \in {NullT(T) : T \in NumericType} ->
            NumV(CHOOSE T \in NumericType : NullT(T) = type, 0)
      [] OTHER -> Nil

\* sql.Null[T].Scan(value): database/sql's conversion of a driver value into T.
convertAssign(type, value) ==
    CASE type = "NullBool" ->
            IF value.t = "bool" THEN [ok |-> TRUE, v |-> value]
            ELSE IF value.t = "int64" /\ value.n \in {0, 1}
                THEN [ok |-> TRUE, v |-> BoolV(value.n = 1)]
            ELSE IF value.t \in {"bytes", "string"} /\ value.s \in {<<"1">>, <<"0">>}
                THEN [ok |-> TRUE, v |-> BoolV(value.s = <<"1">>)]
            ELSE [ok |-> FALSE, v |-> Nil]
      [] type = "NullString" ->
            IF value.t \in {"bytes", "string"} THEN [ok |-> TRUE, v |-> StringV(value.s)]
            ELSE IF value.t \in {"int64", "float64"}
                THEN [ok |-> TRUE, v |-> StringV(castToString(value))]
            ELSE IF value.t = "bool" THEN [ok |-> TRUE, v |-> StringV(<<"true">>)]
            ELSE [ok |-> FALSE, v |-> Nil]
      [] type = "NullTime" ->
            IF value.t = "time" THEN [ok |-> TRUE, v |-> value] ELSE [ok |-> FALSE, v |-> Nil]
      [] OTHER ->
            LET T == CHOOSE T \in NumericType : NullT(T) = type
                p == IF value.t \in {"bytes", "string"} THEN ParseNumber(value.s)
                     ELSE [ok |-> IsNumeric(value.t), n |-> value.n]
            IN IF p.ok /\ ~(IsUnsigned(T) /\ p.n < 0)
                   THEN [ok |-> TRUE, v |-> NumV(T, p.n)]
                   ELSE [ok |-> FALSE, v |-> Nil]

\* sqlRows.Scan of one driver value into one scan target.
ScanInto(t, value) ==
    IF t.type \in {"any", "custom"}
        THEN [ok |-> TRUE, t |-> [t EXCEPT !.v = value, !.valid = value # Nil]]
    ELSE IF t.type = "nullBytes" THEN nullBytesScan(t, value)
    ELSE IF value.t = "nil"
        THEN [ok |-> TRUE, t |-> [t EXCEPT !.v = ZeroOf(t.type), !.valid = FALSE]]
    ELSE LET c == convertAssign(t.type, value) IN
         [ok |-> c.ok, t |-> [t EXCEPT !.v = c.v, !.valid = c.ok]]

-----------------------------------------------------------------------------
(* Accessor calls *)

CallOf(op, T, dest, name) == [op |-> op, T |-> T, dest |-> dest, name |-> name]

FormatOps ==
    {"Value", "Bytes", "Bool", "NullBool", "String", "NullString", "Time", "NullTime",
     "NullUUID", "types_UUID", "NullBytes", "NullJSON", "types_JSON"}

FieldOps ==
    {"BytesField", "BoolField", "NullBoolField", "StringField", "NullStringField",
     "TimeField", "NullTimeField", "NullUUIDField"}

NumFormatOps == {"NumericValue", "NullNumericValue"}

NumFieldOps == {"XField", "NullXField", "NullNumericField"}

DestFormatOps == {"Scan", "Array", "NullArray", "Enum", "NullEnum", "UUID", "JSON"}

DestFieldOps == {"ScanField", "ArrayField", "NullArrayField", "EnumField", "NullEnumField",
                 "UUIDField", "JSONField"}

\* The accessors that take a Field; the others take a format string.
IsFieldKeyed(op) == op \in FieldOps \cup NumFieldOps \cup DestFieldOps

DestsOf(op) ==
    CASE op \in {"Scan", "ScanField"} -> ScanDests
      [] op \in {"Array", "ArrayField", "NullArray", "NullArrayField"} -> ArrayDests
      [] op \in {"Enum", "EnumField", "NullEnum", "NullEnumField"} -> EnumDests
      [] op \in {"UUID", "UUIDField"} -> UUIDDests
      [] OTHER -> JSONDests

\* The calls a row mapper may make, with the names it may pass.
Calls(formats, fieldNames) ==
    {CallOf(op, "", "", n) : op \in FormatOps, n \in formats}
    \cup {CallOf(op, "", "", n) : op \in FieldOps, n \in fieldNames}
    \cup {CallOf(op, T, "", n) : op \in NumFormatOps, T \in NumTypes, n \in formats}
    \cup {CallOf(op, T, "", n) : op \in NumFieldOps, T \in NumTypes, n \in fieldNames}
    \cup UNION {{CallOf(op, "", d, n) : d \in DestsOf(op), n \in formats} : op \in DestFormatOps}
    \cup UNION {{CallOf(op, "", d, n) : d \in DestsOf(op), n \in fieldNames} : op \in DestFieldOps}

\* The accessor call c made on row r.
Call(r, c) ==
    CASE c.op = "Value" -> Value(r, c.name)
      [] c.op = "Bytes" -> Bytes(r, c.name)
      [] c.op = "Bool" -> Bool(r, c.name)
      [] c.op = "NullBool" -> NullBool(r, c.name)
      [] c.op = "String" -> String(r, c.name)
      [] c.op = "NullString" -> NullString(r, c.name)
      [] c.op = "Time" -> Time(r, c.name)
      [] c.op = "NullTime" -> NullTime(r, c.name)
      [] c.op = "NullUUID" -> NullUUID(r, c.name)
      [] c.op = "types_UUID" -> types_UUID(r, c.name)
      [] c.op = "NullBytes" -> NullBytes(r, c.name)
      [] c.op = "NullJSON" -> NullJSON(r, c.name)
      [] c.op = "types_JSON" -> types_JSON(r, c.name)
      [] c.op = "BytesField" -> BytesField(r, FieldOf(c.name))
      [] c.op = "BoolField" -> BoolField(r, FieldOf(c.name))
      [] c.op = "NullBoolField" -> NullBoolField(r, FieldOf(c.name))
      [] c.op = "StringField" -> StringField(r, FieldOf(c.name))
      [] c.op = "NullStringField" -> NullStringField(r, FieldOf(c.name))
      [] c.op = "TimeField" -> TimeField(r, FieldOf(c.name))
      [] c.op = "NullTimeField" -> NullTimeField(r, FieldOf(c.name))
      [] c.op = "NullUUIDField" -> NullUUIDField(r, FieldOf(c.name))
      [] c.op = "NumericValue" -> NumericValue(r, c.T, c.name)
      [] c.op = "NullNumericValue" -> NullNumericValue(r, c.T, c.name)
      [] c.op = "XField" -> XField(r, c.T, FieldOf(c.name))
      [] c.op = "NullXField" -> NullXField(r, c.T, FieldOf(c.name))
      [] c.op = "NullNumericField" -> NullNumericField(r, c.T, FieldOf(c.name))
      [] c.op = "Scan" -> Scan(r, c.dest, c.name)
      [] c.op = "ScanField" -> ScanField(r, c.dest, FieldOf(c.name))
      [] c.op = "Array" -> Array(r, c.dest, c.name)
      [] c.op = "ArrayField" -> ArrayField(r, c.dest, FieldOf(c.name))
      [] c.op = "NullArray" -> NullArray(r, c.dest, c.name)
      [] c.op = "NullArrayField" -> NullArrayField(r, c.dest, FieldOf(c.name))
      [] c.op = "Enum" -> Enum(r, c.dest, c.name)
      [] c.op = "EnumField" -> EnumField(r, c.dest, FieldOf(c.name))
      [] c.op = "NullEnum" -> NullEnum(r, c.dest, c.name)
      [] c.op = "NullEnumField" -> NullEnumField(r, c.dest, FieldOf(c.name))
      [] c.op = "UUID" -> UUID(r, c.dest, c.name)
      [] c.op = "UUIDField" -> UUIDField(r, c.dest, FieldOf(c.name))
      [] c.op = "JSON" -> JSON(r, c.dest, c.name)
      [] c.op = "JSONField" -> JSONField(r, c.dest, FieldOf(c.name))

\* What rowLast records of a call: the call, the row before it, what it
\* returned, how it ended, and its position k within the current pass.
Outcome(c, pre, res, k) ==
    [call |-> c, pre |-> pre, ret |-> res.ret, err |-> res.err, k |-> k]

NoCall == CallOf("none", "", "", "")

EmptyRow == NewRow("sqlite", FALSE, FALSE, <<>>, <<>>, <<>>)

RowIdle ==
    /\ row = EmptyRow
    /\ rowLast = Outcome(NoCall, EmptyRow, Res(EmptyRow, NoRet, "none"), 0)
    /\ rowLog = <<>>

-----------------------------------------------------------------------------
(* A live row: the dry run of the row mapper, then its run against the cursor *)

MaxFields == 2

Dialects == {"sqlite", DialectPostgres}

LiveInit ==
    \E d \in Dialects :
        LET r == NewRow(d, FALSE, FALSE, <<>>, <<>>, <<>>) IN
        /\ row = r
        /\ rowLast = Outcome(NoCall, r, Res(r, NoRet, "none"), 0)
        /\ rowLog = <<>>

\* The row mapper makes one more accessor call in its dry run (row.sqlRows is
\* nil). A panic ends the mapper.
DryRunCall ==
    /\ ~row.sqlRows
    /\ rowLast.err = "none"
    /\ Len(rowLog) < MaxFields
    /\ \E c \in Calls({"c1"}, {"c1"}) :
        LET res == Call(row, c) IN
        /\ row' = res.row
        /\ rowLast' = Outcome(c, row, res, Len(rowLog) + 1)
        /\ rowLog' = Append(rowLog, c)
    /\ UNCHANGED <<txVars, colVars, sqlVars>>

\* The values the cursor's current row may hold for the i-th target: the
\* first column draws on everything its accessor's kind of column may carry,
\* the others on a valid value and NULL.
WireFor(i) ==
    LET w == WireValues(Kind(rowLog[i].op)) IN
    IF i = 1 THEN Range(w) ELSE {w[1], w[2]}

\* The rows the cursor may deliver for the first n targets.
RECURSIVE Wires(_)
Wires(n) ==
    IF n = 0 THEN {<<>>} ELSE {Append(w, v) : w \in Wires(n - 1), v \in WireFor(n)}

\* The query runs and the cursor advances to a row: sqlRows is attached,
\* sqlRows.Scan(row.scanDest...) fills the targets, runningIndex restarts.
CursorNext ==
    /\ ~row.sqlRows
    /\ rowLast.err = "none"
    /\ rowLog # <<>>
    /\ \E wire \in Wires(Len(row.scanDest)) :
        /\ \A i \in DOMAIN wire : ScanInto(row.scanDest[i], wire[i]).ok
        /\ row' = [row EXCEPT !.sqlRows = TRUE,
                              !.runningIndex = 0,
                              !.scanDest = [i \in DOMAIN wire |-> ScanInto(row.scanDest[i], wire[i]).t]]
        /\ rowLast' = Outcome(CallOf("Next", "", "", ""), row, Res(row, NoRet, "none"), 0)
    /\ UNCHANGED <<rowLog, txVars, colVars, sqlVars>>

\* The row mapper runs again on the attached row and repeats its calls in
\* the same order. A panic ends the mapper.
ScanCall ==
    /\ row.sqlRows
    /\ rowLast.err = "none"
    /\ rowLast.k < Len(rowLog)
    /\ LET c == rowLog[rowLast.k + 1]
           res == Call(row, c)
       IN /\ row' = res.row
          /\ rowLast' = Outcome(c, row, res, rowLast.k + 1)
    /\ UNCHANGED <<rowLog, txVars, colVars, sqlVars>>

NextLive ==
    \/ DryRunCall
    \/ CursorNext
    \/ ScanCall

-----------------------------------------------------------------------------
(* A static row: the snapshot of one result row of a raw SQL query *)

Columns == <<"c1", "c2">>

\* Bound on how many live-mode registrations or reads a static row may
\* accumulate before the model stops calling accessors on it.
MaxDrift == 1

\* The snapshot is either built by hand (no cursor) or by the cursor, which
\* then scans every column into an *any target.
StaticInit ==
    \E d \in Dialects, attached \in BOOLEAN, v1 \in StaticValues :
        LET v2 == Int64V(2)
            dest == IF attached
                        THEN <<ScanInto(Target("any", ""), v1).t, ScanInto(Target("any", ""), v2).t>>
                        ELSE <<>>
            r == NewRow(d, TRUE, attached, Columns, <<v1, v2>>, dest)
        IN /\ row = r
           /\ rowLast = Outcome(NoCall, r, Res(r, NoRet, "none"), 0)
           /\ rowLog = <<>>

\* The row mapper makes an accessor call on the static row.
StaticCall ==
    /\ Len(row.fields) < MaxDrift
    /\ row.runningIndex < MaxDrift
    /\ \E c \in Calls({"c1", "c2", "zz"}, {"c1"}) :
        LET res == Call(row, c) IN
        /\ row' = res.row
        /\ rowLast' = Outcome(c, row, res, rowLast.k)
    /\ UNCHANGED <<rowLog, txVars, colVars, sqlVars>>

NextStatic == StaticCall

-----------------------------------------------------------------------------
(* fmt.go: Writef, WriteValue, writeNamedArg, writeOrdinalValue *)

DialectSQLite == "sqlite"

DialectMySQL == "mysql"

DialectSQLServer == "sqlserver"

\* The four dialects and an unrecognized one.
SQLDialects == {DialectSQLite, DialectPostgres, DialectMySQL, DialectSQLServer, "other"}

\* A value of the values slice: a plain bind value, a sql.NamedArg whose
\* Value is a plain bind value, or an expandable slice of plain bind values.
PlainValue(v) == [kind |-> "plain", name |-> "", v |-> v, elems |-> <<>>]

NamedArg(name, v) == [kind |-> "named", name |-> name, v |-> v, elems |-> <<>>]

SliceValue(elems) == [kind |-> "slice", name |-> "", v |-> 0, elems |-> elems]

ParamNames == {"n", "m"}

\* params map[string][]int: nil, or a map from names to the (1-based here)
\* indexes into args; a name that is not a key reads as the empty list.
NilParams == [nil |-> TRUE, idx |-> [name \in ParamNames |-> <<>>]]

EmptyParams == [nil |-> FALSE, idx |-> [name \in ParamNames |-> <<>>]]

\* The output: buf *bytes.Buffer (a sequence of characters and rendered
\* markers), args *[]any and params, for one dialect.
NewOutput(dialect, params) ==
    [dialect |-> dialect, buf |-> <<>>, args |-> <<>>, params |-> params]

\* What a write returns: the output as it has left it, and the error.
Wrote(o, err) == [o |-> o, err |-> err]

\* strings.IndexByte(s, c), 1-based; 0 when c does not occur in s.
IndexByte(s, c) ==
    IF \E i \in DOMAIN s : s[i] = c
        THEN CHOOSE i \in DOMAIN s : s[i] = c /\ \A k \in 1..(i - 1) : s[k] # c
        ELSE 0

\* strconv.Itoa
Itoa(n) == ToString(n)

IsDigit(c) == c \in {"0", "1", "2", "3", "4", "5", "6", "7", "8", "9"}

IsLetter(c) == c \in {"x", "n", "m"}

\* strconv.Atoi(paramName) succeeds: a non-empty run of digits.
AtoiOk(s) == s # <<>> /\ \A i \in DOMAIN s : IsDigit(s[i])

RECURSIVE Atoi(_)
Atoi(s) ==
    IF s = <<>> THEN 0
    ELSE 10 * Atoi(SubSeq(s, 1, Len(s) - 1))
         + (CHOOSE d \in 0..9 : Itoa(d) = s[Len(s)])

\* The name a parameter name spells: its characters joined.
RECURSIVE Join(_)
Join(s) == IF s = <<>> THEN "" ELSE Head(s) \o Join(Tail(s))

\* preprocessValue(dialect, value): a plain bind value is passed on as it is.
preprocessValue(dialect, value) == [v |-> value, err |-> "none"]

\* The positional marker of the arg at (1-based) index.
Marker(dialect, index) ==
    CASE dialect \in {DialectPostgres, DialectSQLite} -> "$" \o Itoa(index)
      [] dialect = DialectSQLServer -> "@p" \o Itoa(index)
      [] OTHER -> "?"

\* func expandSlice: from element i on.
RECURSIVE expandSlice(_, _, _)
expandSlice(o, elems, i) ==
    IF i > Len(elems) THEN Wrote(o, "none")
    ELSE LET sep == IF i > 1 THEN <<", ">> ELSE <<>>
             arg == preprocessValue(o.dialect, PlainValue(elems[i]))
             o1 == [o EXCEPT !.buf = @ \o sep \o <<Marker(o.dialect, Len(o.args) + 1)>>]
         IN IF arg.err # "none" THEN Wrote(o1, arg.err)
            ELSE expandSlice([o1 EXCEPT !.args = Append(@, arg.v)], elems, i + 1)

\* Mutant: a repeated name is appended again on every dialect.
writeNamedArgAlwaysAppends(o, namedArg) ==
    LET index == Len(o.args) + 1
        slot == IF o.dialect \in {DialectSQLite, DialectSQLServer}
                    THEN namedArg ELSE PlainValue(namedArg.v)
        text == CASE o.dialect = DialectSQLite -> "$" \o namedArg.name
                  [] o.dialect = DialectPostgres -> "$" \o Itoa(index)
                  [] o.dialect = DialectSQLServer -> "@" \o namedArg.name
                  [] OTHER -> "?"
    IN Wrote([o EXCEPT !.args = Append(@, slot),
                       !.params.idx[namedArg.name] =
                            IF o.params.nil THEN @ ELSE <<index>>,
                       !.buf = Append(@, text)], "none")

\* func writeNamedArg
writeNamedArg(o, namedArg) ==
    LET pre == preprocessValue(o.dialect, PlainValue(namedArg.v))
        arg == [namedArg EXCEPT !.v = pre.v.v]
        paramIndices == IF o.params.nil THEN <<>> ELSE o.params.idx[arg.name]
    IN
    IF pre.err # "none" THEN Wrote(o, pre.err)
    ELSE IF Len(paramIndices) > 0
            /\ o.dialect \in {DialectSQLite, DialectPostgres, DialectSQLServer} THEN
        LET index == paramIndices[1] IN
        CASE o.dialect = DialectSQLite ->
               Wrote([o EXCEPT !.args[index] = arg,
                               !.buf = Append(@, "$" \o arg.name)], "none")
          [] o.dialect = DialectPostgres ->
               Wrote([o EXCEPT !.args[index] = PlainValue(arg.v),
                               !.buf = Append(@, "$" \o Itoa(index))], "none")
          [] o.dialect = DialectSQLServer ->
               Wrote([o EXCEPT !.args[index] = arg,
                               !.buf = Append(@, "@" \o arg.name)], "none")
    ELSE
        LET o1 == [o EXCEPT !.args =
                      [i \in DOMAIN o.args |->
                          IF i \in Range(paramIndices) THEN PlainValue(arg.v) ELSE o.args[i]]]
            index == Len(o1.args) + 1
        IN
        CASE o.dialect = DialectSQLite ->
               Wrote([o1 EXCEPT !.args = Append(@, arg),
                                !.params.idx[arg.name] = IF o.params.nil THEN @ ELSE <<index>>,
                                !.buf = Append(@, "$" \o arg.name)], "none")
          [] o.dialect = DialectPostgres ->
               Wrote([o1 EXCEPT !.args = Append(@, PlainValue(arg.v)),
                                !.params.idx[arg.name] = IF o.params.nil THEN @ ELSE <<index>>,
                                !.buf = Append(@, "$" \o Itoa(index))], "none")
          [] o.dialect = DialectSQLServer ->
               Wrote([o1 EXCEPT !.args = Append(@, arg),
                                !.params.idx[arg.name] = IF o.params.nil THEN @ ELSE <<index>>,
                                !.buf = Append(@, "@" \o arg.name)], "none")
          [] OTHER ->
               Wrote([o1 EXCEPT !.args = Append(@, PlainValue(arg.v)),
                                !.params.idx[arg.name] =
                                    IF o.params.nil THEN @ ELSE Append(paramIndices, index),
                                !.buf = Append(@, "?")], "none")

\* Mutant: the marker of a plain value is numbered with its 0-based index.
WriteValueZeroBased(o, value) ==
    IF value.kind = "named" THEN writeNamedArg(o, value)
    ELSE IF value.kind = "slice" THEN expandSlice(o, value.elems, 1)
    ELSE LET pre == preprocessValue(o.dialect, value) IN
         IF pre.err # "none" THEN Wrote(o, pre.err)
         ELSE Wrote([o EXCEPT !.args = Append(@, pre.v),
                              !.buf = Append(@, Marker(o.dialect, Len(o.args)))], "none")

\* func WriteValue
WriteValue(o, value) ==
    IF value.kind = "named" THEN writeNamedArg(o, value)
    ELSE IF value.kind = "slice" THEN expandSlice(o, value.elems, 1)
    ELSE LET pre == preprocessValue(o.dialect, value) IN
         IF pre.err # "none" THEN Wrote(o, pre.err)
         ELSE Wrote([o EXCEPT !.args = Append(@, pre.v),
                              !.buf = Append(@, Marker(o.dialect, Len(o.args) + 1))], "none")

\* What writeOrdinalValue returns: the output, the error, and the
\* ordinalIndices map as it has left it.
WroteOrdinal(w, ordinalIndices) ==
    [o |-> w.o, err |-> w.err, ordinalIndices |-> ordinalIndices]

\* Mutant: the ordinal's value is appended again at every occurrence.
writeOrdinalValueAlwaysAppends(o, values, ordinal, ordinalIndices) ==
    IF ordinal - 1 < 0 \/ ordinal - 1 >= Len(values)
        THEN WroteOrdinal(Wrote(o, "ordinal"), ordinalIndices)
        ELSE WroteOrdinal(WriteValue(o, values[ordinal]), ordinalIndices)

\* func writeOrdinalValue; ordinalIndices maps the ordinals already appended
\* to their (1-based here) index in args.
writeOrdinalValue(o, values, ordinal, ordinalIndices) ==
    IF ordinal - 1 < 0 \/ ordinal - 1 >= Len(values)
        THEN WroteOrdinal(Wrote(o, "ordinal"), ordinalIndices)
    ELSE LET value == values[ordinal] IN
    IF value.kind = "named" THEN WroteOrdinal(writeNamedArg(o, value), ordinalIndices)
    ELSE IF value.kind = "slice"
        THEN WroteOrdinal(expandSlice(o, value.elems, 1), ordinalIndices)
    ELSE LET pre == preprocessValue(o.dialect, value) IN
    IF pre.err # "none" THEN WroteOrdinal(Wrote(o, pre.err), ordinalIndices)
    ELSE IF o.dialect \in {DialectSQLite, DialectPostgres, DialectSQLServer} THEN
        LET seen == ordinal \in DOMAIN ordinalIndices
            o1 == IF seen THEN o ELSE [o EXCEPT !.args = Append(@, pre.v)]
            index == IF seen THEN ordinalIndices[ordinal] ELSE Len(o1.args)
            indices == IF seen THEN ordinalIndices
                       ELSE [k \in DOMAIN ordinalIndices \cup {ordinal} |->
                                IF k = ordinal THEN index ELSE ordinalIndices[k]]
        IN WroteOrdinal(Wrote([o1 EXCEPT !.buf = Append(@, Marker(o.dialect, index))], "none"),
                        indices)
    ELSE WroteOrdinal(WriteValue(o, pre.v), ordinalIndices)

\* The name of a value that counts as a named parameter, "" for the others.
NameOf(value) == IF value.kind = "named" THEN value.name ELSE ""

\* namedIndex: the index in values of every named argument; the loop fails
\* when a name comes a second time.
NamedTwice(values) ==
    \E i, j \in DOMAIN values :
        i < j /\ NameOf(values[i]) # "" /\ NameOf(values[i]) = NameOf(values[j])

namedIndex(values) ==
    [name \in {NameOf(values[i]) : i \in DOMAIN values} \ {""} |->
        CHOOSE i \in DOMAIN values : NameOf(values[i]) = name]

\* A parameter name may hold letters, digits and '_' only.
ValidParamName(paramName) ==
    \A k \in DOMAIN paramName :
        paramName[k] = "_" \/ IsLetter(paramName[k]) \/ IsDigit(paramName[k])

\* What writef returns: the output, the error, and (history) one record per
\* placeholder it has resolved: the parameter name, the value it stands for,
\* and the output before and after the value was written.
Wrotef(o, err, log) == [o |-> o, err |-> err, log |-> log]

Resolved(paramName, value, o, w) ==
    [ph |-> Join(paramName), value |-> value, pre |-> o, post |-> w.o]

\* The loop of writef: "jump to each '{' character in the format string".
RECURSIVE writefLoop(_, _, _, _, _, _)
writefLoop(o, values, format, runningValuesIndex, ordinalIndex, log) ==
    LET i == IndexByte(format, "{") IN
    IF i = 0 THEN Wrotef([o EXCEPT !.buf = @ \o format], "none", log)
    \* format[i+1] with '{' the last byte of format: index out of range
    ELSE IF i + 1 > Len(format) THEN Wrotef(o, "panic", log)
    ELSE IF format[i + 1] = "{" THEN
        writefLoop([o EXCEPT !.buf = @ \o SubSeq(format, 1, i - 1) \o <<"{">>],
                   values, SubSeq(format, i + 2, Len(format)),
                   runningValuesIndex, ordinalIndex, log)
    ELSE
        LET o1 == [o EXCEPT !.buf = @ \o SubSeq(format, 1, i - 1)]
            f1 == SubSeq(format, i, Len(format))
            j == IndexByte(f1, "}")
            paramName == SubSeq(f1, 2, j - 1)
            rest == SubSeq(f1, j + 1, Len(f1))
        IN
        IF j = 0 THEN Wrotef(o1, "no '}' found", log)
        ELSE IF ~ValidParamName(paramName) THEN Wrotef(o1, "param name", log)
        ELSE IF paramName = <<>> THEN
            IF runningValuesIndex >= Len(values) THEN Wrotef(o1, "too few values", log)
            ELSE LET w == WriteValue(o1, values[runningValuesIndex + 1]) IN
                 IF w.err # "none" THEN Wrotef(w.o, w.err, log)
                 ELSE writefLoop(w.o, values, rest, runningValuesIndex + 1, ordinalIndex,
                                 Append(log, Resolved(paramName, values[runningValuesIndex + 1], o1, w)))
        ELSE IF AtoiOk(paramName) THEN
            LET w == writeOrdinalValue(o1, values, Atoi(paramName), ordinalIndex) IN
            IF w.err # "none" THEN Wrotef(w.o, w.err, log)
            ELSE writefLoop(w.o, values, rest, runningValuesIndex, w.ordinalIndices,
                            Append(log, Resolved(paramName, values[Atoi(paramName)], o1, w)))
        ELSE IF Join(paramName) \notin DOMAIN namedIndex(values) THEN
            Wrotef(o1, "not provided", log)
        ELSE LET w == WriteValue(o1, values[namedIndex(values)[Join(paramName)]]) IN
             IF w.err # "none" THEN Wrotef(w.o, w.err, log)
             ELSE writefLoop(w.o, values, rest, runningValuesIndex, ordinalIndex,
                             Append(log, Resolved(paramName,
                                                  values[namedIndex(values)[Join(paramName)]],
                                                  o1, w)))

\* Mutant: a name that comes twice among the values is not rejected; the
\* first value of that name is used.
writefFirstNameWins(o, format, values) ==
    IF IndexByte(format, "{") = 0
        THEN Wrotef([o EXCEPT !.buf = @ \o format], "none", <<>>)
        ELSE writefLoop(o, values, format, 0, <<>>, <<>>)

\* func writef, called with runningValuesIndex and ordinalIndex nil
writef(o, format, values) ==
    IF IndexByte(format, "{") = 0
        THEN Wrotef([o EXCEPT !.buf = @ \o format], "none", <<>>)
    ELSE IF NamedTwice(values) THEN Wrotef(o, "more than once", <<>>)
    ELSE writefLoop(o, values, format, 0, <<>>, <<>>)

\* func Writef
Writef(o, format, values) == writef(o, format, values)

-----------------------------------------------------------------------------
(* fmt.go: the calls made on one output *)

MaxWrites == 2

MaxPieces == 2

MaxValues == 2

\* The pieces templates are made of: a literal character, the escape, the
\* anonymous, ordinal and named placeholders, and a lone brace.
Pieces == {"x", "{{", "{}", "{0}", "{1}", "{2}", "{n}", "{"}

\* The characters of a piece.
PieceChars(p) ==
    CASE p = "x" -> <<"x">>
      [] p = "{{" -> <<"{", "{">>
      [] p = "{}" -> <<"{", "}">>
      [] p = "{n}" -> <<"{", "n", "}">>
      [] p = "{" -> <<"{">>
      [] OTHER -> <<"{", CHOOSE d \in {"0", "1", "2", "3"} : p = "{" \o d \o "}", "}">>

RECURSIVE Flatten(_)
Flatten(pieces) ==
    IF pieces = <<>> THEN <<>> ELSE PieceChars(Head(pieces)) \o Flatten(Tail(pieces))

RECURSIVE SeqsUpTo(_, _)
SeqsUpTo(S, n) ==
    IF n = 0 THEN {<<>>}
    ELSE SeqsUpTo(S, n - 1) \cup {Append(s, x) : s \in SeqsUpTo(S, n - 1), x \in S}

Templates == SeqsUpTo(Pieces, MaxPieces)

BindValues ==
    {PlainValue(1), PlainValue(2), NamedArg("n", 1), NamedArg("n", 2), SliceValue(<<1, 2>>)}

ValueLists == SeqsUpTo(BindValues, MaxValues)

NoWrite ==
    [op |-> "none", pieces |-> <<>>, values |-> <<>>, pre |-> NewOutput("other", NilParams),
     err |-> "none", log |-> <<>>, n |-> 0]

FmtIdle ==
    /\ output = NewOutput("other", NilParams)
    /\ fmtLast = NoWrite

FmtInit ==
    /\ \E dialect \in SQLDialects, params \in {NilParams, EmptyParams} :
          output = NewOutput(dialect, params)
    /\ fmtLast = [NoWrite EXCEPT !.pre = output]

\* A builder writes one value into the output. (The model follows an output
\* up to its first Writef call.)
WriteValueCall ==
    /\ fmtLast.n < MaxWrites
    /\ fmtLast.op # "Writef"
    /\ \E value \in BindValues :
          LET w == WriteValue(output, value) IN
          /\ output' = w.o
          /\ fmtLast' = [op |-> "WriteValue", pieces |-> <<>>, values |-> <<value>>,
                         pre |-> output, err |-> w.err, log |-> <<>>, n |-> fmtLast.n + 1]
    /\ UNCHANGED <<quote, upd, spr, js, txVars, colVars, rowVars>>

\* A builder writes a template and its values into the output.
WritefCall ==
    /\ fmtLast.n < MaxWrites
    /\ fmtLast.op # "Writef"
    /\ \E pieces \in Templates, values \in ValueLists :
          LET w == Writef(output, Flatten(pieces), values) IN
          /\ output' = w.o
          /\ fmtLast' = [op |-> "Writef", pieces |-> pieces, values |-> values,
                         pre |-> output, err |-> w.err, log |-> w.log, n |-> fmtLast.n + 1]
    /\ UNCHANGED <<quote, upd, spr, js, txVars, colVars, rowVars>>

NextFmt ==
    \/ WriteValueCall
    \/ WritefCall

-----------------------------------------------------------------------------
(* fmt.go: QuoteIdentifier, EscapeQuote *)

MaxIdent == 3

\* The double quote character (U+0022).
DoubleQuote == "''"

\* The backtick character (U+0060).
Backtick == "^"

\* The characters identifiers are made of: lower-case letters, upper-case
\* letters, a digit, the underscore and the three closing quote characters.
IdentChars == {"d", "o", "f", "O", "L", "D", "1", "_", DoubleQuote, Backtick, "]"}

Identifiers == SeqsUpTo(IdentChars, MaxIdent)

\* var sqliteKeywords, postgresKeywords, mysqlKeywords, sqlserverKeywords:
\* the entries that can be spelled with IdentChars.
sqliteKeywords == {<<"d", "o">>, <<"o", "f">>}

postgresKeywords == {<<"d", "o">>}

mysqlKeywords == {<<"o", "f">>}

sqlserverKeywords == {<<"o", "f">>}

\* strings.ToLower
ToLowerChar(c) ==
    CASE c = "O" -> "o"
      [] c = "L" -> "l"
      [] c = "D" -> "d"
      [] OTHER -> c

ToLower(s) == [i \in DOMAIN s |-> ToLowerChar(s[i])]

\* The identifiers QuoteIdentifier never quotes.
PseudoIdentifiers ==
    { <<"E", "X", "C", "L", "U", "D", "E", "D">>, <<"I", "N", "S", "E", "R", "T", "E", "D">>,
      <<"D", "E", "L", "E", "T", "E", "D">>, <<"N", "E", "W">>, <<"O", "L", "D">> }

\* char == '_' || (char >= '0' && char <= '9') || (char >= 'a' && char <= 'z')
IsPlainChar(c) == c \in {"_", "1", "d", "o", "f"}

\* The loop of EscapeQuote: b is the builder, str what is left to escape.
RECURSIVE escapeQuoteLoop(_, _, _)
escapeQuoteLoop(b, str, q) ==
    LET i == IndexByte(str, q) IN
    IF i = 0 THEN b \o str
    ELSE LET rest == SubSeq(str, i, Len(str)) IN
         escapeQuoteLoop(b \o SubSeq(str, 1, i - 1) \o <<q, q>>,
                         IF Len(rest) > 2 /\ rest[1] = q /\ rest[2] = q
                             THEN SubSeq(str, i + 2, Len(str))
                             ELSE SubSeq(str, i + 1, Len(str)),
                         q)

\* func EscapeQuote
EscapeQuote(str, q) == escapeQuoteLoop(<<>>, str, q)

\* Mutant: the pseudo-identifiers are quoted like any other upper-case word.
QuoteIdentifierNoAllowList(dialect, identifier) ==
    CASE dialect = DialectMySQL -> <<Backtick>> \o EscapeQuote(identifier, Backtick) \o <<Backtick>>
      [] dialect = DialectSQLServer -> <<"[">> \o EscapeQuote(identifier, "]") \o <<"]">>
      [] OTHER -> <<DoubleQuote>> \o EscapeQuote(identifier, DoubleQuote) \o <<DoubleQuote>>

\* func QuoteIdentifier
QuoteIdentifier(dialect, identifier) ==
    LET badChar ==
            \E i \in DOMAIN identifier :
                /\ \A k \in 1..(i - 1) : IsPlainChar(identifier[k])
                /\ \/ i = 1 /\ IsDigit(identifier[i])
                   \/ ~IsPlainChar(identifier[i])
        keyword ==
            CASE dialect = DialectSQLite -> ToLower(identifier) \in sqliteKeywords
              [] dialect = DialectPostgres -> ToLower(identifier) \in postgresKeywords
              [] dialect = DialectMySQL -> ToLower(identifier) \in mysqlKeywords
              [] dialect = DialectSQLServer -> ToLower(identifier) \in sqlserverKeywords
              [] OTHER -> FALSE
        needsQuoting ==
            IF identifier = <<>> THEN TRUE
            ELSE IF identifier \in PseudoIdentifiers THEN FALSE
            ELSE IF badChar THEN TRUE
            ELSE keyword
    IN
    IF ~needsQuoting THEN identifier
    ELSE CASE dialect = DialectMySQL -> <<Backtick>> \o EscapeQuote(identifier, Backtick) \o <<Backtick>>
           [] dialect = DialectSQLServer -> <<"[">> \o EscapeQuote(identifier, "]") \o <<"]">>
           [] OTHER -> <<DoubleQuote>> \o EscapeQuote(identifier, DoubleQuote) \o <<DoubleQuote>>

NoQuote == [op |-> "none", dialect |-> "other", str |-> <<>>, q |-> DoubleQuote, result |-> <<>>]

QuoteIdle == quote = NoQuote

\* The inputs of the call to come: a dialect (the empty one included), an
\* identifier and a quote character.
QuoteInit ==
    \E dialect \in SQLDialects \cup {""}, str \in Identifiers, q \in {DoubleQuote, Backtick, "]"} :
        quote = [NoQuote EXCEPT !.dialect = dialect, !.str = str, !.q = q]

QuoteIdentifierCall ==
    /\ quote.op = "none"
    /\ quote' = [quote EXCEPT !.op = "QuoteIdentifier",
                              !.result = QuoteIdentifier(quote.dialect, quote.str)]
    /\ UNCHANGED <<output, fmtLast, upd, spr, js, txVars, colVars, rowVars>>

EscapeQuoteCall ==
    /\ quote.op = "none"
    /\ quote' = [quote EXCEPT !.op = "EscapeQuote",
                              !.result = EscapeQuote(quote.str, quote.q)]
    /\ UNCHANGED <<output, fmtLast, upd, spr, js, txVars, colVars, rowVars>>

NextQuote ==
    \/ QuoteIdentifierCall
    \/ EscapeQuoteCall
-----------------------------------------------------------------------------
(* fmt.go: Sprintf, Sprint, lookupParam *)

MaxQuery == 4

\* The characters queries are made of: the four opening quotes, the closing
\* bracket, the parameter prefixes ? $ @, a letter, a digit and the space.
QueryChars == {"'", DoubleQuote, Backtick, "[", "]", "?", "$", "@", "p", "1", " "}

Queries == SeqsUpTo(QueryChars, MaxQuery)

\* The args slices: none, one int, an int and a sql.NamedArg, and a value
\* that Sprint cannot render.
ArgLists ==
    { <<>>,
      <<PlainValue(7)>>,
      <<PlainValue(7), NamedArg("p", 8)>>,
      <<SliceValue(<<1, 2>>)>> }

\* unicode.IsLetter over QueryChars
IsLetterRune(c) == c \in {"p"}

\* What Sprint and lookupParam return: the text and the error ("" for nil;
\* "panic" when the call does not return because an index is out of range).
Param(value, err) == [value |-> value, err |-> err]

\* Sprint(dialect, v): an int prints as its decimal digits, a sql.NamedArg as
\* its Value, and a slice of ints has no SQL representation.
Sprint(dialect, v) ==
    CASE v.kind = "plain" -> Param(<<Itoa(v.v)>>, "")
      [] v.kind = "named" -> Param(<<Itoa(v.v)>>, "")
      [] OTHER -> Param(<<>>, "has no SQL representation")

\* namedIndices[name] of Sprintf: the index (1-based here) of the last
\* sql.NamedArg of that name, 0 when the map has no such key.
namedIndices(args, name) ==
    LET hits == {i \in DOMAIN args : args[i].kind = "named" /\ args[i].name = name}
    IN IF hits = {} THEN 0 ELSE CHOOSE i \in hits : \A k \in hits : k <= i

\* lookupParam; args[runningArgsIndex] is read without a bounds check, so the
\* call panics when runningArgsIndex is past the end of args.
lookupParam(dialect, args, paramName, runningArgsIndex) ==
    LET maybeNum ==
            IF paramName[1] = "@" /\ dialect = DialectSQLServer
               /\ Len(paramName) >= 2 /\ paramName[2] = "p"
                THEN SubSeq(paramName, 3, Len(paramName))
                ELSE SubSeq(paramName, 2, Len(paramName))
        name == Join(SubSeq(paramName, 2, Len(paramName)))
    IN
    IF maybeNum = <<>> THEN
        IF paramName[1] # "?" THEN Param(<<>>, "parameter name missing")
        ELSE IF runningArgsIndex >= Len(args) THEN Param(<<>>, "panic")
        ELSE Sprint(dialect, args[runningArgsIndex + 1])
    ELSE IF AtoiOk(maybeNum) THEN
        IF Atoi(maybeNum) - 1 < 0 \/ Atoi(maybeNum) - 1 >= Len(args)
            THEN Param(<<>>, "args index out of bounds")
            ELSE Sprint(dialect, args[Atoi(maybeNum)])
    ELSE IF dialect \in {DialectPostgres, DialectMySQL}
        THEN Param(<<>>, "does not support named parameter")
    ELSE IF namedIndices(args, name) = 0
        THEN Param(<<>>, "named parameter not provided")
    ELSE Sprint(dialect, args[namedIndices(args, name)])

\* The locals of Sprintf's loop. log records, for each query position the
\* loop has handled, what that iteration wrote and whether it looked a
\* parameter up; err is set by the iteration that returns.
SprintfLocals ==
    [buf |-> <<>>, runningArgsIndex |-> 0, mustWriteCharAt |-> 0,
     insideStringOrIdentifier |-> FALSE, openingQuote |-> "", paramName |-> <<>>,
     log |-> <<>>, err |-> ""]

Wrote1(st, out, lookup) ==
    [st EXCEPT !.buf = @ \o out, !.log = Append(@, [out |-> out, lookup |-> lookup])]

\* The opening quotes of the dialect.
opensStringOrIdentifier(dialect, char) ==
    \/ char = "'"
    \/ char = DoubleQuote
    \/ char = Backtick /\ dialect = DialectMySQL
    \/ char = "[" /\ dialect = DialectSQLServer

\* The quote that closes what openingQuote has opened.
closingQuote(openingQuote) == IF openingQuote = "[" THEN "]" ELSE openingQuote

startsParamName(dialect, char) ==
    \/ char = "$" /\ dialect \in {DialectSQLite, DialectPostgres}
    \/ char = ":" /\ dialect = DialectSQLite
    \/ char = "@" /\ dialect \in {DialectSQLite, DialectSQLServer}

\* A variant in which a doubled closing quote ends the region as well.
SprintfStepNoDoubling(dialect, query, args, i, st) ==
    LET char == query[i] IN
    IF st.mustWriteCharAt = i THEN Wrote1(st, <<char>>, FALSE)
    ELSE IF st.insideStringOrIdentifier THEN
        LET w == Wrote1(st, <<char>>, FALSE) IN
        IF char = closingQuote(st.openingQuote) THEN
            [w EXCEPT !.insideStringOrIdentifier = FALSE]
        ELSE w
    ELSE IF opensStringOrIdentifier(dialect, char) THEN
        [Wrote1(st, <<char>>, FALSE) EXCEPT !.insideStringOrIdentifier = TRUE,
                                            !.openingQuote = char]
    ELSE IF st.paramName # <<>> THEN
        IF char # "_" /\ ~IsLetterRune(char) /\ ~IsDigit(char) THEN
            LET p == lookupParam(dialect, args, st.paramName, st.runningArgsIndex) IN
            IF p.err # "" THEN [st EXCEPT !.err = p.err]
            ELSE [Wrote1(st, p.value \o <<char>>, TRUE) EXCEPT
                     !.runningArgsIndex = IF st.paramName = <<"?">> THEN @ + 1 ELSE @,
                     !.paramName = <<>>]
        ELSE [Wrote1(st, <<>>, FALSE) EXCEPT !.paramName = Append(@, char)]
    ELSE IF startsParamName(dialect, char) THEN
        [Wrote1(st, <<>>, FALSE) EXCEPT !.paramName = <<char>>]
    ELSE IF char = "?" /\ dialect # DialectPostgres THEN
        IF dialect = DialectSQLite THEN
            [Wrote1(st, <<>>, FALSE) EXCEPT !.paramName = <<char>>]
        ELSE IF st.runningArgsIndex >= Len(args) THEN
            [st EXCEPT !.err = "too few args provided"]
        ELSE
            LET p == Sprint(dialect, args[st.runningArgsIndex + 1]) IN
            IF p.err # "" THEN [st EXCEPT !.err = p.err]
            ELSE [Wrote1(st, p.value, TRUE) EXCEPT !.runningArgsIndex = @ + 1]
    ELSE Wrote1(st, <<char>>, FALSE)

\* One iteration of the loop over the characters of query, at position i.
SprintfStep(dialect, query, args, i, st) ==
    LET char == query[i] IN
    IF st.mustWriteCharAt = i THEN Wrote1(st, <<char>>, FALSE)
    ELSE IF st.insideStringOrIdentifier THEN
        LET w == Wrote1(st, <<char>>, FALSE) IN
        IF char = closingQuote(st.openingQuote) THEN
            IF i < Len(query) /\ query[i + 1] = closingQuote(st.openingQuote)
                THEN [w EXCEPT !.mustWriteCharAt = i + 1]
                ELSE [w EXCEPT !.insideStringOrIdentifier = FALSE]
        ELSE w
    ELSE IF opensStringOrIdentifier(dialect, char) THEN
        [Wrote1(st, <<char>>, FALSE) EXCEPT !.insideStringOrIdentifier = TRUE,
                                            !.openingQuote = char]
    ELSE IF st.paramName # <<>> THEN
        IF char # "_" /\ ~IsLetterRune(char) /\ ~IsDigit(char) THEN
            LET p == lookupParam(dialect, args, st.paramName, st.runningArgsIndex) IN
            IF p.err # "" THEN [st EXCEPT !.err = p.err]
            ELSE [Wrote1(st, p.value \o <<char>>, TRUE) EXCEPT
                     !.runningArgsIndex = IF st.paramName = <<"?">> THEN @ + 1 ELSE @,
                     !.paramName = <<>>]
        ELSE [Wrote1(st, <<>>, FALSE) EXCEPT !.paramName = Append(@, char)]
    ELSE IF startsParamName(dialect, char) THEN
        [Wrote1(st, <<>>, FALSE) EXCEPT !.paramName = <<char>>]
    ELSE IF char = "?" /\ dialect # DialectPostgres THEN
        IF dialect = DialectSQLite THEN
            [Wrote1(st, <<>>, FALSE) EXCEPT !.paramName = <<char>>]
        ELSE IF st.runningArgsIndex >= Len(args) THEN
            [st EXCEPT !.err = "too few args provided"]
        ELSE
            LET p == Sprint(dialect, args[st.runningArgsIndex + 1]) IN
            IF p.err # "" THEN [st EXCEPT !.err = p.err]
            ELSE [Wrote1(st, p.value, TRUE) EXCEPT !.runningArgsIndex = @ + 1]
    ELSE Wrote1(st, <<char>>, FALSE)

\* for i, char := range query: the iterations from position i on, up to the
\* one that returns.
RECURSIVE SprintfLoop(_, _, _, _, _)
SprintfLoop(dialect, query, args, i, st) ==
    IF i > Len(query) \/ st.err # "" THEN st
    ELSE SprintfLoop(dialect, query, args, i + 1, SprintfStep(dialect, query, args, i, st))

\* What Sprintf returns: the text, the error, and for inspection the log of
\* the loop and whether the final flush of paramName looked a parameter up.
Sprinted(text, err, log, flushed) ==
    [text |-> text, err |-> err, log |-> log, flushed |-> flushed]

Sprintf(dialect, query, args) ==
    IF Len(args) = 0 THEN Sprinted(query, "", <<>>, FALSE)
    ELSE
        LET st == SprintfLoop(dialect, query, args, 1, SprintfLocals) IN
        IF st.err = "panic" THEN Sprinted(<<>>, "panic", st.log, FALSE)
        ELSE IF st.err # "" THEN Sprinted(st.buf, st.err, st.log, FALSE)
        ELSE
            LET p == IF st.paramName # <<>>
                        THEN lookupParam(dialect, args, st.paramName, st.runningArgsIndex)
                        ELSE Param(<<>>, "")
                flushed == st.paramName # <<>>
            IN
            IF p.err = "panic" THEN Sprinted(<<>>, "panic", st.log, flushed)
            ELSE IF p.err # "" THEN Sprinted(st.buf, p.err, st.log, flushed)
            ELSE IF st.insideStringOrIdentifier
                THEN Sprinted(st.buf \o p.value, "unclosed string or identifier", st.log, flushed)
            ELSE Sprinted(st.buf \o p.value, "", st.log, flushed)

NoSprintf ==
    [op |-> "none", dialect |-> "other", query |-> <<>>, args |-> <<>>,
     res |-> Sprinted(<<>>, "", <<>>, FALSE)]

SprIdle == spr = NoSprintf

\* The inputs of the call to come: a dialect, a query and the args.
SprInit ==
    \E dialect \in SQLDialects, query \in Queries, args \in ArgLists :
        spr = [NoSprintf EXCEPT !.dialect = dialect, !.query = query, !.args = args]

SprintfCall ==
    /\ spr.op = "none"
    /\ spr' = [spr EXCEPT !.op = "Sprintf",
                          !.res = Sprintf(spr.dialect, spr.query, spr.args)]
    /\ UNCHANGED <<output, fmtLast, quote, upd, js, txVars, colVars, rowVars>>

NextSprintf == SprintfCall

-----------------------------------------------------------------------------
(* types/types.go: JSON *)

JSONKeys == {"a", "b"}

JSONValues == {1, 2}

\* The documents: maps from some of the keys to values.
JSONDocs == UNION {[D -> JSONValues] : D \in SUBSET JSONKeys}

\* The values passed as target: a pointer to a map, a map passed by value,
\* a channel (which encoding/json cannot encode) and nil.
JSONTargets ==
    [kind : {"pointer", "value"}, doc : JSONDocs]
        \cup {[kind |-> "chan", doc |-> <<>>], [kind |-> "nil", doc |-> <<>>]}

\* The keys of a set in the order encoding/json writes them.
RECURSIVE SortedKeys(_)
SortedKeys(D) ==
    IF D = {} THEN <<>>
    ELSE LET k == CHOOSE x \in D : \A y \in D : (x = "a") \/ (y # "a")
         IN <<k>> \o SortedKeys(D \ {k})

\* json.Marshal of a map: its members as key/value pairs, keys sorted.
MarshalDoc(doc) ==
    LET keys == SortedKeys(DOMAIN doc) IN [i \in DOMAIN keys |-> <<keys[i], doc[keys[i]]>>]

\* json.Marshal(v): a pointer encodes as what it points to, nil as null, and
\* a channel is an unsupported type.
Marshal(v) ==
    CASE v.kind = "chan" -> [bytes |-> <<>>, err |-> "json: unsupported type"]
      [] v.kind = "nil" -> [bytes |-> <<"null">>, err |-> ""]
      [] OTHER -> [bytes |-> MarshalDoc(v.doc), err |-> ""]

\* Decoding the members of an object into a map: each member is stored under
\* its key, and the entries the map already has are kept.
RECURSIVE DecodeInto(_, _)
DecodeInto(bytes, doc) ==
    IF bytes = <<>> THEN doc
    ELSE LET k == bytes[1][1]
             v == bytes[1][2]
         IN DecodeInto(Tail(bytes),
                       [x \in DOMAIN doc \cup {k} |-> IF x = k THEN v ELSE doc[x]])

\* json.Unmarshal(data, v): v must be a non-nil pointer.
UnmarshalInto(bytes, v) ==
    IF v.kind # "pointer" THEN [target |-> v, err |-> "json: InvalidUnmarshalError"]
    ELSE [target |-> [v EXCEPT !.doc = DecodeInto(bytes, v.doc)], err |-> ""]

\* JSON.Bytes
JSONBytes(j) == Marshal([kind |-> "value", doc |-> j])

\* JSON.Unmarshal: the bytes it decodes are those of target, not of j.
Unmarshal(j, target) ==
    LET m == Marshal(target) IN
    IF m.err # "" THEN [target |-> target, err |-> m.err]
    ELSE UnmarshalInto(m.bytes, target)

NoJSON ==
    [op |-> "none", j |-> <<>>, target |-> [kind |-> "nil", doc |-> <<>>],
     after |-> [kind |-> "nil", doc |-> <<>>], err |-> ""]

JsIdle == js = NoJSON

\* The receiver and the target of the call to come.
JsInit ==
    \E j \in JSONDocs, target \in JSONTargets :
        js = [NoJSON EXCEPT !.j = j, !.target = target, !.after = target]

UnmarshalCall ==
    /\ js.op = "none"
    /\ LET r == Unmarshal(js.j, js.target) IN
        js' = [js EXCEPT !.op = "Unmarshal", !.after = r.target, !.err = r.err]
    /\ UNCHANGED <<output, fmtLast, quote, upd, spr, txVars, colVars, rowVars>>

NextJSON == UnmarshalCall


-----------------------------------------------------------------------------
(* update_query.go: UpdateQuery *)

\* The capability table: the per-dialect feature flags the builder consults.
SupportsUpdateFrom(dialect) == dialect # DialectMySQL

JoinRequiresFrom(dialect) == dialect # DialectMySQL

SupportsUpdateOrderByLimit(dialect) == dialect = DialectMySQL

\* Mutant: every dialect is taken to support RETURNING.
SupportsReturningEverywhere(dialect) == TRUE

SupportsReturning(dialect) == dialect \in {DialectPostgres, DialectSQLite}

\* The assignments a column mapper emits: it calls col.set once per pair on a
\* Column in UPDATE mode.
RECURSIVE MapColumns(_, _)
MapColumns(c, pairs) ==
    IF pairs = <<>> THEN c.assignments
    ELSE MapColumns(set(c, Head(pairs).field, Head(pairs).value).col, Tail(pairs))

\* The assignment list the statement is built from: the mapper's when a
\* mapper is supplied, the static list otherwise.
EffectiveAssignments(q) ==
    IF q.ColumnMapper.supplied
        THEN MapColumns(NewColumn(TRUE), q.ColumnMapper.pairs)
        ELSE q.Assignments

\* The SET list: every assignment renders as its field, " = " and the marker
\* of its value, which is appended to args.
RECURSIVE WriteAssignments(_, _, _)
WriteAssignments(o, assignments, i) ==
    IF i > Len(assignments) THEN o
    ELSE WriteAssignments(
            WriteValue([o EXCEPT !.buf = @ \o (IF i > 1 THEN <<", ">> ELSE <<>>)
                                       \o <<toString(assignments[i].field), " = ">>],
                       PlainValue(assignments[i].value)).o,
            assignments, i + 1)

\* The clauses of the rendered statement, in order.
UpdateClauses(q) ==
    <<"UPDATE", "SET">>
        \o WriteAssignments(NewOutput(q.Dialect, NilParams), EffectiveAssignments(q), 1).buf
        \o (IF q.FromTable THEN <<"FROM">> ELSE <<>>)
        \o (IF q.JoinTables THEN <<"JOIN">> ELSE <<>>)
        \o (IF q.OrderByFields THEN <<"ORDER BY">> ELSE <<>>)
        \o (IF q.LimitRows THEN <<"LIMIT">> ELSE <<>>)
        \o (IF q.ReturningFields THEN <<"RETURNING">> ELSE <<>>)

Built(err, sql) == [err |-> err, sql |-> sql, args |-> <<>>]

\* The args of the rendered statement.
UpdateArgs(q) ==
    WriteAssignments(NewOutput(q.Dialect, NilParams), EffectiveAssignments(q), 1).args

\* Mutant: the capability checks come before the structural ones.
UpdateToSQLCapabilitiesFirst(q) ==
    IF q.FromTable /\ ~SupportsUpdateFrom(q.Dialect)
        THEN Built("UnsupportedByDialect: FROM", <<>>)
    ELSE IF q.JoinTables /\ ~q.FromTable /\ JoinRequiresFrom(q.Dialect)
        THEN Built("UnsupportedByDialect: JOIN", <<>>)
    ELSE IF q.OrderByFields /\ ~SupportsUpdateOrderByLimit(q.Dialect)
        THEN Built("UnsupportedByDialect: ORDER BY", <<>>)
    ELSE IF q.LimitRows /\ ~SupportsUpdateOrderByLimit(q.Dialect)
        THEN Built("UnsupportedByDialect: LIMIT", <<>>)
    ELSE IF q.ReturningFields /\ ~SupportsReturning(q.Dialect)
        THEN Built("UnsupportedByDialect: RETURNING", <<>>)
    ELSE IF q.UpdateTable = "nil"
        THEN Built("InvalidStatement: missing target table", <<>>)
    ELSE IF EffectiveAssignments(q) = <<>>
        THEN Built("InvalidStatement: empty assignment list", <<>>)
    ELSE [Built("none", UpdateClauses(q)) EXCEPT !.args = UpdateArgs(q)]

\* Building the UPDATE: validation in order, first failure wins, then the
\* rendering.
UpdateToSQL(q) ==
    IF q.UpdateTable = "nil"
        THEN Built("InvalidStatement: missing target table", <<>>)
    ELSE IF EffectiveAssignments(q) = <<>>
        THEN Built("InvalidStatement: empty assignment list", <<>>)
    ELSE IF q.FromTable /\ ~SupportsUpdateFrom(q.Dialect)
        THEN Built("UnsupportedByDialect: FROM", <<>>)
    ELSE IF q.JoinTables /\ ~q.FromTable /\ JoinRequiresFrom(q.Dialect)
        THEN Built("UnsupportedByDialect: JOIN", <<>>)
    ELSE IF q.OrderByFields /\ ~SupportsUpdateOrderByLimit(q.Dialect)
        THEN Built("UnsupportedByDialect: ORDER BY", <<>>)
    ELSE IF q.LimitRows /\ ~SupportsUpdateOrderByLimit(q.Dialect)
        THEN Built("UnsupportedByDialect: LIMIT", <<>>)
    ELSE IF q.ReturningFields /\ ~SupportsReturning(q.Dialect)
        THEN Built("UnsupportedByDialect: RETURNING", <<>>)
    ELSE [Built("none", UpdateClauses(q)) EXCEPT !.args = UpdateArgs(q)]

\* A column mapper: none, one that sets nothing, or one that sets f1 and f2.
ColumnMappers ==
    { [supplied |-> FALSE, pairs |-> <<>>],
      [supplied |-> TRUE, pairs |-> <<>>],
      [supplied |-> TRUE,
       pairs |-> <<Assign([id |-> 1, name |-> "a"], "v1"),
                   Assign([id |-> 2, name |-> "b"], "v2")>>] }

UpdateQueries ==
    [ Dialect : {DialectSQLite, DialectPostgres, DialectMySQL, DialectSQLServer},
      UpdateTable : {"nil", "tbl"},
      Assignments : {<<>>, <<Assign([id |-> 1, name |-> "a"], "v1")>>},
      ColumnMapper : ColumnMappers,
      FromTable : BOOLEAN,
      JoinTables : BOOLEAN,
      OrderByFields : BOOLEAN,
      LimitRows : BOOLEAN,
      ReturningFields : BOOLEAN ]

\* Mutant: the fields are set whether or not some are set already.
SetFetchableFieldsOverwrites(q, fields) ==
    IF q.Dialect \in {DialectPostgres, DialectSQLite}
        THEN [query |-> [q EXCEPT !.ReturningFields = fields], ok |-> TRUE]
        ELSE [query |-> q, ok |-> FALSE]

\* UpdateQuery.SetFetchableFields, as TestSQLiteUpdateQuery,
\* TestPostgresUpdateQuery, TestMySQLUpdateQuery and TestSQLServerUpdateQuery
\* pin it down: the fields are set, and ok is true, on the dialects with
\* RETURNING when none is set; fields says whether the list handed in is
\* non-empty.
SetFetchableFields(q, fields) ==
    IF q.Dialect \in {DialectPostgres, DialectSQLite} /\ ~q.ReturningFields
        THEN [query |-> [q EXCEPT !.ReturningFields = fields], ok |-> TRUE]
        ELSE [query |-> q, ok |-> FALSE]

MaxFetch == 3

NoUpdate ==
    [ q |-> [Dialect |-> DialectSQLite, UpdateTable |-> "nil", Assignments |-> <<>>,
             ColumnMapper |-> [supplied |-> FALSE, pairs |-> <<>>],
             FromTable |-> FALSE, JoinTables |-> FALSE, OrderByFields |-> FALSE,
             LimitRows |-> FALSE, ReturningFields |-> FALSE],
      built |-> FALSE,
      result |-> Built("none", <<>>),
      ops |-> <<>>,
      ok |-> FALSE,
      had |-> FALSE ]

UpdIdle == upd = NoUpdate

UpdInit == \E q \in UpdateQueries : upd = [NoUpdate EXCEPT !.q = q]

\* The statement is rendered.
UpdateToSQLCall ==
    /\ ~upd.built
    /\ upd' = [upd EXCEPT !.built = TRUE, !.result = UpdateToSQL(upd.q),
                          !.ops = Append(@, "ToSQL")]
    /\ UNCHANGED <<output, fmtLast, quote, spr, js, txVars, colVars, rowVars>>

\* _, ok := q1.SetFetchableFields(fields): the caller keeps the query that
\* is returned or, as the tests do, drops it. (History: ok, and whether
\* fields were set when the call was made.)
SetFetchableFieldsCall ==
    /\ ~upd.built
    /\ Len(upd.ops) < MaxFetch
    /\ \E fields \in BOOLEAN, keep \in BOOLEAN :
          LET r == SetFetchableFields(upd.q, fields) IN
          upd' = [upd EXCEPT !.q = IF keep THEN r.query ELSE upd.q,
                             !.ok = r.ok,
                             !.had = upd.q.ReturningFields,
                             !.ops = Append(@, "SetFetchableFields")]
    /\ UNCHANGED <<output, fmtLast, quote, spr, js, txVars, colVars, rowVars>>

\* q1.ReturningFields = q1.ReturningFields[:0]
ClearReturningFields ==
    /\ ~upd.built
    /\ Len(upd.ops) < MaxFetch
    /\ upd.q.ReturningFields
    /\ upd' = [upd EXCEPT !.q.ReturningFields = FALSE, !.ops = Append(@, "Clear")]
    /\ UNCHANGED <<output, fmtLast, quote, spr, js, txVars, colVars, rowVars>>

NextUpd ==
    \/ UpdateToSQLCall
    \/ SetFetchableFieldsCall
    \/ ClearReturningFields

SqlIdle == FmtIdle /\ QuoteIdle /\ UpdIdle /\ SprIdle /\ JsIdle
-----------------------------------------------------------------------------
(* Specifications *)

NextTx ==
    \/ TxCall
    \/ TxBeginTx
    \/ TxFn
    \/ TxCommit
    \/ TxDeferred
    \/ TxReturn

InitTx == TxInit /\ ColIdle /\ RowIdle /\ SqlIdle

SpecTx == InitTx /\ [][NextTx]_vars

NextCol == ColumnSet

InitCol == TxInit /\ ColInit /\ RowIdle /\ SqlIdle

SpecCol == InitCol /\ [][NextCol]_vars

InitLive == TxInit /\ ColIdle /\ LiveInit /\ SqlIdle

SpecLive == InitLive /\ [][NextLive]_vars

InitStatic == TxInit /\ ColIdle /\ StaticInit /\ SqlIdle

SpecStatic == InitStatic /\ [][NextStatic]_vars

InitFmt == TxInit /\ ColIdle /\ RowIdle /\ FmtInit /\ QuoteIdle /\ UpdIdle /\ SprIdle /\ JsIdle

SpecFmt == InitFmt /\ [][NextFmt]_vars

InitQuote == TxInit /\ ColIdle /\ RowIdle /\ FmtIdle /\ QuoteInit /\ UpdIdle /\ SprIdle /\ JsIdle

SpecQuote == InitQuote /\ [][NextQuote]_vars

InitUpd == TxInit /\ ColIdle /\ RowIdle /\ FmtIdle /\ QuoteIdle /\ UpdInit /\ SprIdle /\ JsIdle

SpecUpd == InitUpd /\ [][NextUpd]_vars

InitSprintf == TxInit /\ ColIdle /\ RowIdle /\ FmtIdle /\ QuoteIdle /\ UpdIdle /\ SprInit /\ JsIdle

SpecSprintf == InitSprintf /\ [][NextSprintf]_vars

InitJSON == TxInit /\ ColIdle /\ RowIdle /\ FmtIdle /\ QuoteIdle /\ UpdIdle /\ SprIdle /\ JsInit

SpecJSON == InitJSON /\ [][NextJSON]_vars

-----------------------------------------------------------------------------
(* Claims *)

\* C1: for every RunInTx call in which BeginTx succeeded, if the callback
\* returned a non-nil error or panicked, then tx.Commit is never called,
\* tx.Rollback is called exactly once by the time RunInTx exits, and in the
\* error case RunInTx returns the callback's error unchanged.
C1_RollbackOnFailure ==
    fnOut \in FnErrors \cup {"panic"} =>
        /\ Count(txLog, "Commit") = 0
        /\ Count(txLog, "Rollback") <= 1
        /\ txpc \in {"exit", "idle"} =>
              /\ Count(txLog, "Rollback") = 1
              /\ fnOut \in FnErrors => txRet = fnOut

C1_Witness ==
    /\ txpc = "exit"
    /\ fnOut = "panic"
    /\ txLog = <<"BeginTx", "fn", "Rollback">>

\* The positions in colHist of the INSERT-mode calls that start a tuple: the
\* first call, and every later call whose field renders to the first call's name.
C3_Starts ==
    {i \in DOMAIN colHist : i = 1 \/ toString(colHist[i].field) = toString(colHist[1].field)}

C3_StartOf(i) == CHOOSE s \in C3_Starts : s <= i /\ \A u \in C3_Starts : u <= i => u <= s

C3_TupleOf(i) == Cardinality({s \in C3_Starts : s <= i})

\* C3: in INSERT mode a new row-value tuple is started exactly by the first
\* call and by each later call whose field name equals the name of the first
\* field; every other call appends its value to the last tuple. So the
\* tuples are the history of the calls cut at those positions.
C3_TupleBoundaries ==
    ~col.isUpdate =>
        /\ Len(col.rowValues) = Cardinality(C3_Starts)
        /\ \A i \in DOMAIN colHist :
              /\ Len(col.rowValues[C3_TupleOf(i)]) >= i - C3_StartOf(i) + 1
              /\ col.rowValues[C3_TupleOf(i)][i - C3_StartOf(i) + 1] = colHist[i].value
        /\ \A j \in DOMAIN col.rowValues :
              Len(col.rowValues[j]) = Cardinality({i \in DOMAIN colHist : C3_TupleOf(i) = j})

C3_Witness ==
    /\ ~col.isUpdate
    /\ Len(col.rowValues) = 2
    /\ Len(col.rowValues[1]) = 2
    /\ Len(col.rowValues[2]) = 2
    /\ colHist[3].field.id # colHist[1].field.id

\* The position in colHist of the first call that ended the first row, or
\* one past the end when there is none.
C4_FirstBoundary ==
    IF C3_Starts \subseteq {1} THEN Len(colHist) + 1
    ELSE CHOOSE s \in C3_Starts \ {1} : \A u \in C3_Starts \ {1} : s <= u

\* C4: in INSERT mode, until the first row boundary every Set appends its
\* field to insertColumns, in call order; from the boundary on (rowEnded) no
\* Set changes insertColumns, and values keep being appended to the last
\* tuple whatever its length.
C4_ColumnsFrozenAfterBoundary ==
    ~col.isUpdate =>
        /\ col.rowEnded <=> C4_FirstBoundary <= Len(colHist)
        /\ col.insertColumns = [i \in 1..(C4_FirstBoundary - 1) |-> colHist[i].field]

C4_Witness ==
    /\ ~col.isUpdate
    /\ col.rowEnded
    /\ Len(col.insertColumns) = 1
    /\ Len(col.rowValues[Len(col.rowValues)]) = 3

\* The Field the call c hands to the row: the field itself, or the expression
\* built from its format string.
C2_FieldOf(c) == IF IsFieldKeyed(c.op) THEN FieldOf(c.name) ELSE Expr(c.name)

\* The accessors whose result is the content of the scan target they read.
C2_ReturnsTarget ==
    {"Value", "NullBool", "NullBoolField", "NullString", "NullStringField", "NullTime",
     "NullTimeField", "NullNumericValue", "NullNumericField", "NullXField"}

\* C2: on a live row, a typed accessor call of the dry run (no cursor) that
\* returns appends exactly one field and exactly one scan target and leaves
\* runningIndex unchanged; a call of the scan pass (cursor attached), whether
\* it returns or panics, advances runningIndex by exactly one and leaves fields
\* and scanDest unchanged, and what it returns is read from the target at the
\* old runningIndex; so the i-th call of the scan pass reads the target that
\* the i-th call of the dry run registered.
C2_TwoPassProtocol ==
    (~rowLast.pre.queryIsStatic /\ rowLast.call.op \notin {"none", "Next"}) =>
        /\ (~rowLast.pre.sqlRows /\ rowLast.err = "none") =>
              /\ row.fields = Append(rowLast.pre.fields, C2_FieldOf(rowLast.call))
              /\ Len(row.scanDest) = Len(rowLast.pre.scanDest) + 1
              /\ SubSeq(row.scanDest, 1, Len(rowLast.pre.scanDest)) = rowLast.pre.scanDest
              /\ Len(row.scanDest) = Len(row.fields)
              /\ row.runningIndex = rowLast.pre.runningIndex
        /\ rowLast.pre.sqlRows =>
              /\ row.runningIndex = rowLast.pre.runningIndex + 1
              /\ row.fields = rowLast.pre.fields
              /\ row.scanDest = rowLast.pre.scanDest
              /\ rowLast.k = rowLast.pre.runningIndex + 1
              /\ row.fields[rowLast.k] = C2_FieldOf(rowLast.call)
              /\ (rowLast.err = "none" /\ rowLast.call.op \in C2_ReturnsTarget) =>
                    rowLast.ret.v = row.scanDest[rowLast.k].v

C2_Witness ==
    /\ row.sqlRows
    /\ rowLast.k = 2
    /\ rowLast.err = "none"
    /\ row.runningIndex = 2
    /\ rowLog[1].op = "Value"
    /\ rowLast.call.op = "NullStringField"
    /\ rowLast.ret = Ret(StringV(<<"1">>), TRUE)

\* The field-keyed, live-only accessors.
C5_FieldKeyed == FieldOps \cup NumFieldOps \cup DestFieldOps

\* C5: on a static row every live-only, field-keyed accessor (ScanField,
\* ArrayField, BytesField, BoolField, NullBoolField, EnumField, JSONField,
\* StringField, NullStringField, TimeField, NullTimeField, UUIDField, the
\* numeric XxxField and NullXxxField, and the generic NullNumericField) fails
\* with the mode error and leaves fields, scanDest and runningIndex unchanged.
C5_StaticRejectsFieldAccessors ==
    (rowLast.pre.queryIsStatic /\ rowLast.call.op \in C5_FieldKeyed) =>
        /\ rowLast.err = "mode"
        /\ row.fields = rowLast.pre.fields
        /\ row.scanDest = rowLast.pre.scanDest
        /\ row.runningIndex = rowLast.pre.runningIndex

\* The expression-keyed accessors of row_column.go that C6 lists.
C6_ExpressionKeyed ==
    {"Value", "Bytes", "Bool", "NullBool", "String", "NullString", "Time", "NullTime",
     "NumericValue", "NullNumericValue", "Array", "Enum", "UUID"}

\* C6: on a static row every expression-keyed accessor (Value, Bytes, Bool,
\* String, Time, the numeric accessors, Array, Enum, UUID and their Null
\* variants) looks the column up by name in the snapshot and returns the
\* conversion of the stored value (or fails because the value does not
\* convert), leaves fields, scanDest, runningIndex and values unchanged, and
\* fails when the name is not a column of the snapshot.
C6_StaticLookupByName ==
    (rowLast.pre.queryIsStatic /\ rowLast.call.op \in C6_ExpressionKeyed) =>
        /\ row = rowLast.pre
        /\ columnIndex(rowLast.pre, rowLast.call.name) = 0 => rowLast.err = "column"
        /\ columnIndex(rowLast.pre, rowLast.call.name) # 0 =>
              rowLast.err \in {"none", "type", "parse", "dest"}

\* The Null-aware and the plain scalar accessors C7 is about.
C7_NullAware ==
    {"NullBool", "NullNumericValue", "NullString", "NullTime", "NullBytes", "NullJSON",
     "NullUUID", "NullEnum"}

C7_Plain == {"Bool", "NumericValue", "String", "Time", "Bytes", "types_JSON", "types_UUID"}

\* The zero value of the type the plain accessor returns.
C7_Zero(c) ==
    CASE c.op = "Bool" -> BoolV(FALSE)
      [] c.op = "NumericValue" -> NumV(c.T, 0)
      [] c.op = "String" -> StringV(<<>>)
      [] c.op = "Time" -> TimeV(<<>>)
      [] c.op = "types_UUID" -> UUIDV(ZeroUUID)
      [] OTHER -> Nil

\* C7: on a static row, when the stored value of the column is nil (SQL
\* NULL), the Null-aware variant of every scalar accessor (bool, numeric,
\* string, time, bytes, JSON, UUID, enum) returns validity false without
\* failing, and the plain accessor returns the zero value of its type.
C7_StaticNullHandling ==
    (/\ rowLast.pre.queryIsStatic
     /\ rowLast.call.op \in C7_NullAware \cup C7_Plain
     /\ rowLast.call.dest \in {"", "*intEnum", "*stringEnum"}
     /\ columnIndex(rowLast.pre, rowLast.call.name) # 0
     /\ rowLast.pre.values[columnIndex(rowLast.pre, rowLast.call.name)] = Nil) =>
        /\ rowLast.err = "none"
        /\ rowLast.call.op \in C7_NullAware => ~rowLast.ret.valid
        /\ rowLast.call.op \in C7_Plain => rowLast.ret.v = C7_Zero(rowLast.call)

\* What NullArray/NullArrayField yields on a live row in its scan pass whose
\* cursor delivered value for the array column.
C8_Live(dialect, destPtr, value) ==
    LET t == ScanInto(Target("nullBytes", "string"), value).t
        r == [NewRow(dialect, FALSE, TRUE, <<>>, <<>>, <<t>>) EXCEPT !.fields = <<Expr("c1")>>]
    IN types_array(r, destPtr, Expr("c1"))

\* C8: static and live mode agree on array output: for the same dialect,
\* destination and non-null array payload, NullArray on a static row and
\* NullArray on a live row in its scan pass both fail or both succeed, and
\* when they succeed they produce the same slice and the same validity
\* flag, which is true.
C8_ArrayModesAgree ==
    (/\ rowLast.pre.queryIsStatic
     /\ rowLast.call.op = "NullArray"
     /\ IsArrayDest(rowLast.call.dest)
     /\ columnIndex(rowLast.pre, rowLast.call.name) # 0
     /\ rowLast.pre.values[columnIndex(rowLast.pre, rowLast.call.name)].t \in {"bytes", "string"}) =>
        LET value == rowLast.pre.values[columnIndex(rowLast.pre, rowLast.call.name)]
            live == C8_Live(rowLast.pre.dialect, rowLast.call.dest, value)
        IN /\ (rowLast.err = "none") <=> (live.err = "none")
           /\ rowLast.err = "none" => (rowLast.ret = live.ret /\ rowLast.ret.valid)

\* The live accessors that decode a UUID or an enum from the scan target.
C9_Decoders ==
    {"UUID", "UUIDField", "NullUUID", "NullUUIDField", "types_UUID",
     "Enum", "EnumField", "NullEnum", "NullEnumField"}

\* The payload is not a valid encoding of the type the accessor decodes.
C9_Invalid(op, bytes) ==
    IF Kind(op) = "uuid" THEN ByteLen(bytes) # 16 /\ ~ParseUUID(bytes).ok
    ELSE getEnumIndex(bytes, EnumNames) < 0

\* C9: a typed UUID or enum accessor of the scan pass never returns silently
\* when the scanned value is non-null and is not a valid encoding of the
\* requested type (for UUID: neither 16 raw bytes nor a parsable textual UUID,
\* the empty payload included; for enum: a name outside the declared list):
\* the call fails.
C9_NoSilentZero ==
    (/\ ~rowLast.pre.queryIsStatic
     /\ rowLast.pre.sqlRows
     /\ rowLast.call.op \in C9_Decoders
     /\ rowLast.pre.scanDest[rowLast.k].valid
     /\ C9_Invalid(rowLast.call.op, rowLast.pre.scanDest[rowLast.k].v.s)) =>
        rowLast.err # "none"

\* The source value of the last call on a static row.
C10_Source == rowLast.pre.values[columnIndex(rowLast.pre, rowLast.call.name)]

C10_OnColumn ==
    /\ rowLast.pre.queryIsStatic
    /\ rowLast.call.op \in {"Time", "NullTime"}
    /\ columnIndex(rowLast.pre, rowLast.call.name) # 0

C10_SomeFormatParses(s) ==
    \E i \in DOMAIN sqliteTimestampFormats : LayoutMatches(sqliteTimestampFormats[i], s)

\* C10 as stated: Row.Time and Row.NullTime on a static row return a native
\* time.Time as is, and for a []byte or a string source return the parse by
\* the first timestamp format that accepts it; they fail only when no
\* format accepts it.
C10_AsStated ==
    C10_OnColumn =>
        /\ C10_Source.t = "time" => (rowLast.err = "none" /\ rowLast.ret.v = C10_Source)
        /\ C10_Source.t \in {"bytes", "string"} =>
              IF C10_SomeFormatParses(TrimSuffixZ(C10_Source.s))
                  THEN rowLast.err = "none" /\ rowLast.ret.v = ParsedTime(TrimSuffixZ(C10_Source.s))
                  ELSE rowLast.err # "none"

\* C10 (amended): Row.Time and Row.NullTime on a static row return a native
\* time.Time as is; for a []byte source they strip one trailing "Z" and return
\* the parse by the first timestamp format of the list that accepts the rest,
\* failing only when no format accepts it; a string source always fails.
C10_TimeFromBytesOnly ==
    C10_OnColumn =>
        /\ row = rowLast.pre
        /\ C10_Source.t = "time" => (rowLast.err = "none" /\ rowLast.ret.v = C10_Source)
        /\ C10_Source.t = "bytes" =>
              IF C10_SomeFormatParses(TrimSuffixZ(C10_Source.s))
                  THEN rowLast.err = "none" /\ rowLast.ret.v = ParsedTime(TrimSuffixZ(C10_Source.s))
                  ELSE rowLast.err = "type"
        /\ C10_Source.t = "string" => rowLast.err = "type"

C10_Witness ==
    /\ C10_OnColumn
    /\ rowLast.call.op = "NullTime"
    /\ C10_Source = BytesV(TimestampZ)
    /\ rowLast.err = "none"
    /\ rowLast.ret = Ret(TimeV(<<"DATE", "HH:MM", ":SS", ".FRAC">>), TRUE)

\* The values the last call on the output has written, one record each: the
\* value, and the output before and after it was written.
Fmt_Writes ==
    IF fmtLast.op = "WriteValue"
        THEN <<[ph |-> "", value |-> fmtLast.values[1], pre |-> fmtLast.pre, post |-> output]>>
        ELSE fmtLast.log

\* The text a write has added to buf.
Fmt_Text(e) == SubSeq(e.post.buf, Len(e.pre.buf) + 1, Len(e.post.buf))

\* The write e renders a named argument whose name params already tracks.
C11_Repeats(e) ==
    /\ e.value.kind = "named"
    /\ ~e.pre.params.nil
    /\ e.pre.params.idx[e.value.name] # <<>>

\* C11: with a params map, when a named argument is rendered whose name has
\* been rendered before: on SQLite and SQL Server args keeps its single slot
\* for the name, the slot now holds the NamedArg just bound, and the text is
\* $name / @name; on Postgres args keeps its single slot and the text is $N,
\* N the 1-based index the first occurrence got; on MySQL and any other
\* dialect the value is appended to args again and the text is ?.
C11_RepeatedNamedArg ==
    \A k \in DOMAIN Fmt_Writes :
        LET e == Fmt_Writes[k]
            name == e.value.name
            slots == e.pre.params.idx[name]
        IN C11_Repeats(e) =>
            IF e.pre.dialect \in {DialectSQLite, DialectSQLServer, DialectPostgres} THEN
                /\ Len(slots) = 1
                /\ e.post.params = e.pre.params
                /\ Len(e.post.args) = Len(e.pre.args)
                /\ \A i \in DOMAIN e.pre.args : i # slots[1] => e.post.args[i] = e.pre.args[i]
                /\ e.pre.dialect = DialectSQLite =>
                      e.post.args[slots[1]] = e.value /\ Fmt_Text(e) = <<"$" \o name>>
                /\ e.pre.dialect = DialectSQLServer =>
                      e.post.args[slots[1]] = e.value /\ Fmt_Text(e) = <<"@" \o name>>
                /\ e.pre.dialect = DialectPostgres => Fmt_Text(e) = <<"$" \o Itoa(slots[1])>>
            ELSE
                /\ Len(e.post.args) = Len(e.pre.args) + 1
                /\ e.post.args[Len(e.post.args)] = PlainValue(e.value.v)
                /\ Fmt_Text(e) = <<"?">>

C11_Witness ==
    /\ fmtLast.op = "WriteValue"
    /\ output.dialect = DialectSQLite
    /\ fmtLast.pre.args = <<NamedArg("n", 1)>>
    /\ fmtLast.pre.params.idx["n"] = <<1>>
    /\ fmtLast.values = <<NamedArg("n", 2)>>
    /\ output.args = <<NamedArg("n", 2)>>
    /\ output.buf = <<"$n", "$n">>

\* The write k of the last Writef call resolves an ordinal placeholder whose
\* value is a plain bind value.
C12_PlainOrdinal(k) ==
    /\ fmtLast.op = "Writef"
    /\ fmtLast.log[k].ph \in {"1", "2", "3"}
    /\ fmtLast.log[k].value.kind = "plain"

\* The first write of the call that resolves the same placeholder as write k.
C12_First(k) ==
    CHOOSE f \in 1..k :
        /\ fmtLast.log[f].ph = fmtLast.log[k].ph
        /\ \A g \in 1..(f - 1) : fmtLast.log[g].ph # fmtLast.log[k].ph

\* C12: for an ordinal placeholder {N} whose value is a plain bind value, on
\* SQLite, Postgres and SQL Server the value is appended to args at the first
\* occurrence of {N} only and every occurrence renders the marker of that one
\* arg ($k or @pk, k its 1-based position in args); on MySQL and any other
\* dialect every occurrence appends the value again and renders ?.
C12_OrdinalBoundOnce ==
    \A k \in DOMAIN fmtLast.log :
        LET e == fmtLast.log[k]
            first == fmtLast.log[C12_First(k)]
        IN C12_PlainOrdinal(k) =>
            IF e.pre.dialect \in {DialectSQLite, DialectPostgres, DialectSQLServer} THEN
                /\ e.post.args = IF C12_First(k) = k THEN Append(e.pre.args, e.value)
                                  ELSE e.pre.args
                /\ e.post.args[Len(first.post.args)] = e.value
                /\ Fmt_Text(e) =
                      <<(IF e.pre.dialect = DialectSQLServer THEN "@p" ELSE "$")
                            \o Itoa(Len(first.post.args))>>
            ELSE
                /\ e.post.args = Append(e.pre.args, e.value)
                /\ Fmt_Text(e) = <<"?">>

C12_Witness ==
    /\ fmtLast.op = "Writef"
    /\ fmtLast.err = "none"
    /\ output.dialect = DialectPostgres
    /\ fmtLast.pieces = <<"{1}", "{1}">>
    /\ fmtLast.values = <<PlainValue(1)>>
    /\ fmtLast.pre.args = <<PlainValue(2)>>
    /\ output.args = <<PlainValue(2), PlainValue(1)>>
    /\ output.buf = <<"$1", "$2", "$2">>

\* The last Writef call was made on a template whose pieces are exactly the
\* placeholders and escapes its characters spell (no lone brace).
Fmt_WellFormed ==
    /\ fmtLast.op = "Writef"
    /\ \A k \in DOMAIN fmtLast.pieces : fmtLast.pieces[k] # "{"

\* The last of the values that carries the name.
C13_LastNamed(values, name) ==
    values[CHOOSE i \in DOMAIN values :
              /\ NameOf(values[i]) = name
              /\ \A j \in DOMAIN values : NameOf(values[j]) = name => j <= i]

\* C13: when the values passed to Writef contain several named arguments of
\* one name, rendering succeeds and every {name} placeholder resolves to the
\* last of them in the values list.
C13_LastNameWins ==
    ( /\ fmtLast.op = "Writef"
      /\ NamedTwice(fmtLast.values)
      /\ \A k \in DOMAIN fmtLast.pieces : fmtLast.pieces[k] \in {"x", "{{", "{n}"} )
    => /\ fmtLast.err = "none"
       /\ Len(fmtLast.log) = Cardinality({k \in DOMAIN fmtLast.pieces : fmtLast.pieces[k] = "{n}"})
       /\ \A k \in DOMAIN fmtLast.log :
             fmtLast.log[k].value = C13_LastNamed(fmtLast.values, "n")

\* The template of the last Writef call has a named placeholder without a
\* named value, an ordinal placeholder outside 1..len(values), or more
\* anonymous placeholders than there are values.
C14_Unresolvable ==
    \/ \E k \in DOMAIN fmtLast.pieces :
          /\ fmtLast.pieces[k] = "{n}"
          /\ \A i \in DOMAIN fmtLast.values : NameOf(fmtLast.values[i]) # "n"
    \/ \E k \in DOMAIN fmtLast.pieces : fmtLast.pieces[k] = "{0}"
    \/ \E k \in DOMAIN fmtLast.pieces, N \in 1..3 :
          fmtLast.pieces[k] = "{" \o Itoa(N) \o "}" /\ N > Len(fmtLast.values)
    \/ Cardinality({k \in DOMAIN fmtLast.pieces : fmtLast.pieces[k] = "{}"})
          > Len(fmtLast.values)

RECURSIVE C15_AsOrdinals(_, _)
C15_AsOrdinals(pieces, k) ==
    IF pieces = <<>> THEN <<>>
    ELSE IF Head(pieces) = "{}"
        THEN <<"{" \o Itoa(k) \o "}">> \o C15_AsOrdinals(Tail(pieces), k + 1)
        ELSE <<Head(pieces)>> \o C15_AsOrdinals(Tail(pieces), k)

\* C15: anonymous placeholders are treated like a series of incrementing
\* ordinal placeholders: replacing the k-th anonymous {} of the template by
\* the ordinal {k} yields the same SQL text and the same args, also when the
\* template mixes anonymous and ordinal placeholders.
C15_AnonymousLikeOrdinals ==
    (Fmt_WellFormed /\ fmtLast.err = "none") =>
        LET w == Writef(fmtLast.pre, Flatten(C15_AsOrdinals(fmtLast.pieces, 1)),
                        fmtLast.values)
        IN /\ w.err = "none"
           /\ w.o.buf = output.buf
           /\ w.o.args = output.args

\* The template text with every piece '{{' written as one '{'.
RECURSIVE C16_Unescaped(_)
C16_Unescaped(pieces) ==
    IF pieces = <<>> THEN <<>>
    ELSE (IF Head(pieces) = "{{" THEN <<"{">> ELSE PieceChars(Head(pieces)))
            \o C16_Unescaped(Tail(pieces))

\* C16: every '{{' of a template is emitted as one literal '{' and consumes
\* no value; a '{' that has no terminating '}' (a '{' that is the last
\* character included) makes Writef return the error "no '}' found"; for
\* every template Writef terminates by returning nil or an error. (Stated for
\* values whose names are distinct.)
C16_Braces ==
    (fmtLast.op = "Writef" /\ ~NamedTwice(fmtLast.values)) =>
        /\ fmtLast.err # "panic"
        /\ (\A k \in DOMAIN fmtLast.pieces : fmtLast.pieces[k] \in {"x", "{{"})
              => /\ fmtLast.err = "none"
                 /\ output.buf = fmtLast.pre.buf \o C16_Unescaped(fmtLast.pieces)
                 /\ output.args = fmtLast.pre.args
        /\ (\E k \in DOMAIN fmtLast.pieces :
               /\ fmtLast.pieces[k] = "{"
               /\ \A j \in DOMAIN fmtLast.pieces \ {k} : fmtLast.pieces[j] = "x")
              => fmtLast.err = "no '}' found"

\* The identifier is a reserved keyword of the dialect.
C17_Reserved(dialect, identifier) ==
    \/ dialect = DialectSQLite /\ identifier \in sqliteKeywords
    \/ dialect = DialectPostgres /\ identifier \in postgresKeywords
    \/ dialect = DialectMySQL /\ identifier \in mysqlKeywords
    \/ dialect = DialectSQLServer /\ identifier \in sqlserverKeywords

\* The identifier is one QuoteIdentifier is to return unchanged.
C17_Safe(dialect, identifier) ==
    \/ identifier \in PseudoIdentifiers
    \/ /\ identifier # <<>>
       /\ ~IsDigit(identifier[1])
       /\ \A i \in DOMAIN identifier : identifier[i] \in {"d", "o", "f", "1", "_"}
       /\ ~C17_Reserved(dialect, identifier)

C18_Count(s, q) == Cardinality({i \in DOMAIN s : s[i] = q})

\* s with each doubled q replaced by a single q, from left to right.
RECURSIVE C18_Undouble(_, _)
C18_Undouble(s, q) ==
    IF s = <<>> THEN <<>>
    ELSE IF Len(s) >= 2 /\ s[1] = q /\ s[2] = q
        THEN <<q>> \o C18_Undouble(SubSeq(s, 3, Len(s)), q)
        ELSE <<s[1]>> \o C18_Undouble(Tail(s), q)

\* C18: EscapeQuote(str, q) doubles every occurrence of q in str: the result
\* holds exactly twice as many q characters as str, replacing each doubled q
\* of the result by a single q recovers str, and no different identifier
\* escapes to the same text.
C18_EscapeDoubles ==
    quote.op = "EscapeQuote" =>
        /\ C18_Count(quote.result, quote.q) = 2 * C18_Count(quote.str, quote.q)
        /\ C18_Undouble(quote.result, quote.q) = quote.str
        /\ \A other \in Identifiers :
              other # quote.str => EscapeQuote(other, quote.q) # quote.result

\* The errors of the dialect capability checks.
Upd_Unsupported ==
    {"UnsupportedByDialect: " \o clause : clause \in {"FROM", "JOIN", "ORDER BY", "LIMIT", "RETURNING"}}

\* The statement asks for a clause its dialect does not support.
Upd_UnsupportedClause(q) ==
    \/ q.ReturningFields /\ q.Dialect \in {DialectMySQL, DialectSQLServer}
    \/ (q.OrderByFields \/ q.LimitRows) /\ q.Dialect \in {DialectPostgres, DialectSQLite}
    \/ q.FromTable /\ q.Dialect = DialectMySQL
    \/ q.JoinTables /\ ~q.FromTable /\ q.Dialect = DialectPostgres

\* C19: building an UPDATE validates in a fixed order and the first failing
\* check determines the result: a nil target table fails first (also when a
\* column mapper is supplied and later checks would fail too), then an empty
\* assignment list with no column mapper or with a column mapper that emits
\* nothing, and only then the dialect capability checks.
C19_ValidationOrder ==
    upd.built =>
        /\ upd.q.UpdateTable = "nil"
              => upd.result.err = "InvalidStatement: missing target table"
        /\ ( /\ upd.q.UpdateTable # "nil"
             /\ upd.q.Assignments = <<>>
             /\ upd.q.ColumnMapper.pairs = <<>> )
              => upd.result.err = "InvalidStatement: empty assignment list"
        /\ upd.result.err \in Upd_Unsupported
              => /\ upd.q.UpdateTable # "nil"
                 /\ \/ upd.q.ColumnMapper.pairs # <<>>
                    \/ ~upd.q.ColumnMapper.supplied /\ upd.q.Assignments # <<>>

C19_Witness ==
    /\ upd.built
    /\ upd.q.UpdateTable = "nil"
    /\ upd.q.ColumnMapper.supplied
    /\ upd.q.ColumnMapper.pairs # <<>>
    /\ upd.q.Dialect = DialectMySQL
    /\ upd.q.ReturningFields
    /\ upd.result = Built("InvalidStatement: missing target table", <<>>)

\* C20: an UPDATE with a clause its dialect does not support is rejected and
\* yields no SQL text: RETURNING on MySQL or SQL Server, ORDER BY or LIMIT on
\* Postgres or SQLite, a FROM table on MySQL, and a JOIN with no FROM table
\* on Postgres each give an unsupported-by-dialect error (once the target
\* table and the assignments have passed their checks) and no statement.
C20_UnsupportedClauseRejected ==
    (upd.built /\ Upd_UnsupportedClause(upd.q)) =>
        /\ upd.result.err # "none"
        /\ upd.result.sql = <<>>
        /\ ( /\ upd.q.UpdateTable # "nil"
             /\ upd.q.Assignments # <<>>
             /\ ~upd.q.ColumnMapper.supplied )
              => upd.result.err \in Upd_Unsupported

C20_Witness ==
    /\ upd.built
    /\ upd.q.UpdateTable = "tbl"
    /\ upd.q.Assignments # <<>>
    /\ ~upd.q.ColumnMapper.supplied
    /\ upd.q.Dialect = DialectSQLServer
    /\ upd.q.ReturningFields
    /\ ~upd.q.FromTable /\ ~upd.q.JoinTables /\ ~upd.q.OrderByFields /\ ~upd.q.LimitRows
    /\ upd.result = Built("UnsupportedByDialect: RETURNING", <<>>)

\* C27: every RunInTx execution finalizes the transaction exactly once when
\* BeginTx succeeded and not at all when it failed: Commit and Rollback are
\* never both called; Commit is called if and only if the callback returned
\* nil, its result is returned and no rollback is attempted even when Commit
\* fails; when BeginTx fails the callback is never invoked and the error of
\* BeginTx is returned.
C27_FinalizedExactlyOnce ==
    txpc = "exit" =>
        /\ Count(txLog, "BeginTx") = 1
        /\ txLog[1] = "BeginTx"
        /\ (txRet = "ErrBegin") <=> (Count(txLog, "fn") = 0)
        /\ Count(txLog, "fn") = 0
              => Count(txLog, "Commit") = 0 /\ Count(txLog, "Rollback") = 0
        /\ Count(txLog, "fn") # 0
              => /\ Count(txLog, "fn") = 1
                 /\ Count(txLog, "Commit") + Count(txLog, "Rollback") = 1
                 /\ (Count(txLog, "Commit") = 1) <=> (fnOut = "nil")
                 /\ fnOut = "nil" => txRet \in {"nil", "ErrCommit"}
                 /\ fnOut # "nil" => txRet = fnOut

C27_Witness ==
    /\ txpc = "exit"
    /\ txLog = <<"BeginTx", "fn", "Commit">>
    /\ fnOut = "nil"
    /\ txRet = "ErrCommit"

\* What holds of an INSERT-mode Column in every state.
C28_Shape ==
    /\ col.rowValues # <<>> => Len(col.rowValues[1]) = Len(col.insertColumns)
    /\ (col.rowValues # <<>>) <=> col.rowStarted
    /\ col.rowEnded <=> Len(col.rowValues) >= 2

\* What holds of every step of an INSERT-mode Column.
C28_Step ==
    /\ col.rowEnded => col'.rowEnded
    /\ Len(col'.rowValues) >= Len(col.rowValues)
    /\ \A j \in 1..(Len(col.rowValues) - 1) : col'.rowValues[j] = col.rowValues[j]
    /\ Len(col'.rowValues) > Len(col.rowValues)
          => \A j \in DOMAIN col.rowValues : col'.rowValues[j] = col.rowValues[j]

\* C28: after any sequence of successful Column.Set calls in INSERT mode,
\* len(rowValues[0]) equals len(insertColumns), rowValues is non-empty iff
\* rowStarted, rowEnded holds iff len(rowValues) >= 2, rowEnded never reverts
\* to false, and only the last tuple of rowValues is ever extended: every
\* earlier tuple stays as it is once a new row has started.
C28_InsertInvariants ==
    /\ [](~col.isUpdate => C28_Shape)
    /\ [][~col.isUpdate => C28_Step]_vars

C28_Witness ==
    /\ ~col.isUpdate
    /\ col.rowEnded
    /\ Len(col.rowValues) = 3
    /\ Len(col.insertColumns) = 2
    /\ Len(col.rowValues[1]) = 2

\* s is a prefix of t.
C29_Prefix(s, t) == Len(s) <= Len(t) /\ SubSeq(t, 1, Len(s)) = s

\* The markers of the args N, N+1, ... that stand for the elements from i on
\* of an expanded slice.
RECURSIVE C29_SliceText(_, _, _, _)
C29_SliceText(dialect, elems, i, N) ==
    IF i > Len(elems) THEN <<>>
    ELSE (IF i > 1 THEN <<", ">> ELSE <<>>) \o <<Marker(dialect, N)>>
            \o C29_SliceText(dialect, elems, i + 1, N + 1)

\* The text of the write e is made of markers $N / @pN with 1 <= N <=
\* len(args), and args[N-1] is the value each marker was written for.
C29_MarkersBound(e, args) ==
    IF e.value.kind = "plain" THEN
        \E N \in 1..Len(args) :
            /\ Fmt_Text(e) = <<(IF e.pre.dialect = DialectSQLServer THEN "@p" ELSE "$") \o Itoa(N)>>
            /\ args[N] = e.value
    ELSE
        \E N \in 1..Len(args) :
            /\ N + Len(e.value.elems) - 1 <= Len(args)
            /\ Fmt_Text(e) = C29_SliceText(e.pre.dialect, e.value.elems, 1, N)
            /\ \A i \in DOMAIN e.value.elems : args[N + i - 1] = PlainValue(e.value.elems[i])

\* C29: on the dialects with numbered markers (SQLite, Postgres, SQL
\* Server), a call that writes plain values through WriteValue, slice
\* expansion and ordinal placeholders into the buffer and args only grows
\* args, and every marker $N / @pN it emits has 1 <= N <= len(args) with
\* args[N-1] equal to the value the marker was written for.
C29_MarkersInBounds ==
    ( /\ fmtLast.op \in {"WriteValue", "Writef"}
      /\ output.dialect \in {DialectSQLite, DialectPostgres, DialectSQLServer}
      /\ \A i \in DOMAIN fmtLast.values : fmtLast.values[i].kind # "named" )
    => /\ C29_Prefix(fmtLast.pre.args, output.args)
       /\ \A k \in DOMAIN Fmt_Writes :
             /\ C29_Prefix(Fmt_Writes[k].pre.args, Fmt_Writes[k].post.args)
             /\ C29_MarkersBound(Fmt_Writes[k], output.args)

C29_Witness ==
    /\ fmtLast.op = "Writef"
    /\ fmtLast.err = "none"
    /\ output.dialect = DialectSQLServer
    /\ fmtLast.pieces = <<"{2}", "{}">>
    /\ fmtLast.values = <<SliceValue(<<1, 2>>), PlainValue(2)>>
    /\ fmtLast.pre.args = <<PlainValue(1)>>
    /\ output.buf = <<"@p1", "@p2", "@p3", ", ", "@p4">>
    /\ output.args = <<PlainValue(1), PlainValue(2), PlainValue(1), PlainValue(2)>>

\* C23: rendering is all-or-nothing: whenever rendering a template fails
\* (the placeholder substitution returns an error), the caller receives the
\* error and no partial SQL text and no partial argument list are left in
\* the output.
C23_AllOrNothing ==
    (fmtLast.op = "Writef" /\ fmtLast.err \notin {"none", "panic"}) =>
        /\ output.buf = fmtLast.pre.buf
        /\ output.args = fmtLast.pre.args

\* The last operation on the statement was a SetFetchableFields call.
C21_Called == upd.ops # <<>> /\ upd.ops[Len(upd.ops)] = "SetFetchableFields"

\* C21 as stated: on any dialect SetFetchableFields returns ok=true exactly
\* when the UPDATE has no RETURNING fields set.
C21_AsStated ==
    C21_Called => (upd.ok <=> ~upd.had)

\* C21: on the dialects with RETURNING (SQLite, Postgres) SetFetchableFields
\* returns ok=true exactly when the UPDATE has no RETURNING fields set, and
\* ok=false when some are set; in particular, after the field list has been
\* cleared a further call succeeds. On MySQL and SQL Server it returns
\* ok=false whether or not fields are set.
C21_FetchableFields ==
    C21_Called =>
        /\ upd.q.Dialect \in {DialectSQLite, DialectPostgres} => (upd.ok <=> ~upd.had)
        /\ upd.q.Dialect \in {DialectMySQL, DialectSQLServer} => ~upd.ok

C21_Witness ==
    /\ upd.q.Dialect = DialectSQLite
    /\ upd.ops = <<"SetFetchableFields", "Clear", "SetFetchableFields">>
    /\ upd.ok
    /\ ~upd.had

\* The statement q with the assignments its column mapper sets, f1..fn in
\* call order, given as the static assignment list instead.
C22_Static(q) ==
    [q EXCEPT !.ColumnMapper = [supplied |-> FALSE, pairs |-> <<>>],
              !.Assignments = q.ColumnMapper.pairs]

\* C22: for every dialect, an UPDATE whose assignments are produced by a
\* column mapper that calls Set on the fields f1..fn in that order (UPDATE
\* mode appends one assignment per call, in call order) renders the same SQL
\* text and the same args as the UPDATE built with the static assignment
\* list f1..fn in the same order.
C22_MapperLikeStatic ==
    (upd.built /\ upd.q.ColumnMapper.supplied) =>
        /\ EffectiveAssignments(upd.q) = upd.q.ColumnMapper.pairs
        /\ upd.result.err = UpdateToSQL(C22_Static(upd.q)).err
        /\ upd.result.sql = UpdateToSQL(C22_Static(upd.q)).sql
        /\ upd.result.args = UpdateToSQL(C22_Static(upd.q)).args

C22_Witness ==
    /\ upd.built
    /\ upd.q.ColumnMapper.supplied
    /\ Len(upd.q.ColumnMapper.pairs) = 2
    /\ upd.q.Assignments = <<>>
    /\ upd.q.Dialect = DialectPostgres
    /\ upd.result.err = "none"
    /\ upd.result.sql = <<"UPDATE", "SET", "a", " = ", "$1", ", ", "b", " = ", "$2">>
    /\ upd.result.args = <<PlainValue("v1"), PlainValue("v2")>>

\* C30: after a successful JSON.Unmarshal the target holds the content of the
\* receiver j, as decoding j.Bytes() into the target gives it.
C30_DecodesReceiver ==
    (js.op = "Unmarshal" /\ js.err = "") =>
        /\ js.after = UnmarshalInto(JSONBytes(js.j).bytes, js.target).target
        /\ \A k \in DOMAIN js.j : k \in DOMAIN js.after.doc /\ js.after.doc[k] = js.j[k]

\* What the call does instead: a successful call leaves the target as it was.
C30_TargetUnchanged ==
    js.op = "Unmarshal" => js.after = js.target

\* C25: Sprintf never aborts: for every dialect, query and args the call
\* returns a (text, error) pair, also when the query has more anonymous
\* placeholders than there are args.
C25_NeverAborts ==
    spr.op = "Sprintf" => spr.res.err # "panic"

\* Off SQLite the anonymous placeholder is bounds-checked and the call
\* always returns.
C25_ReturnsOffSQLite ==
    (spr.op = "Sprintf" /\ spr.dialect # DialectSQLite) => spr.res.err # "panic"

\* The closing quote of the region a character opens in the dialect, "" when
\* the character opens none.
C24_Closes(dialect, c) ==
    CASE c = "'" \/ c = DoubleQuote -> c
      [] c = Backtick /\ dialect = DialectMySQL -> c
      [] c = "[" /\ dialect = DialectSQLServer -> "]"
      [] OTHER -> ""

\* Reading the query from position i, with close the closing quote of the
\* region position i lies in ("" outside every region): the set of positions
\* from i on that belong to a region, quotes included. A closing quote that
\* is followed by the same quote is doubled, and the pair stays inside.
RECURSIVE C24_Regions(_, _, _, _)
C24_Regions(dialect, query, i, close) ==
    IF i > Len(query) THEN {}
    ELSE IF close = "" THEN
        IF C24_Closes(dialect, query[i]) # ""
            THEN {i} \cup C24_Regions(dialect, query, i + 1, C24_Closes(dialect, query[i]))
            ELSE C24_Regions(dialect, query, i + 1, "")
    ELSE IF query[i] # close THEN {i} \cup C24_Regions(dialect, query, i + 1, close)
    ELSE IF i < Len(query) /\ query[i + 1] = close
        THEN {i, i + 1} \cup C24_Regions(dialect, query, i + 2, close)
    ELSE {i} \cup C24_Regions(dialect, query, i + 1, "")

\* The query ends inside a region: its last region is never closed.
RECURSIVE C24_Unclosed(_, _, _, _)
C24_Unclosed(dialect, query, i, close) ==
    IF i > Len(query) THEN close # ""
    ELSE IF close = "" THEN C24_Unclosed(dialect, query, i + 1, C24_Closes(dialect, query[i]))
    ELSE IF query[i] # close THEN C24_Unclosed(dialect, query, i + 1, close)
    ELSE IF i < Len(query) /\ query[i + 1] = close
        THEN C24_Unclosed(dialect, query, i + 2, close)
    ELSE C24_Unclosed(dialect, query, i + 1, "")

\* Every character of a region that the call has handled was copied as it
\* is, without a parameter lookup.
C24_Verbatim ==
    \A i \in DOMAIN spr.res.log :
        i \in C24_Regions(spr.dialect, spr.query, 1, "") =>
            /\ spr.res.log[i].out = <<spr.query[i]>>
            /\ ~spr.res.log[i].lookup

\* The claim as stated: with at least one arg, a query that ends inside a
\* region always gives the error "unclosed string or identifier".
C24_AsStated ==
    (spr.op = "Sprintf" /\ spr.args # <<>>
        /\ C24_Unclosed(spr.dialect, spr.query, 1, "")) =>
            spr.res.err = "unclosed string or identifier"

\* The errors of a placeholder that does not resolve.
C24_PlaceholderErrors ==
    {"panic", "too few args provided", "has no SQL representation",
     "parameter name missing", "args index out of bounds",
     "does not support named parameter", "named parameter not provided"}

\* C24: Sprintf copies every character inside a quoted string or quoted
\* identifier verbatim and never substitutes a placeholder there; a region
\* opened by ' or " (any dialect), by ` (MySQL only) or by [ (SQL Server
\* only) ends at the first matching closing quote that is not immediately
\* doubled; when at least one arg is supplied, every placeholder resolves and
\* the query ends inside such a region, Sprintf returns the error "unclosed
\* string or identifier".
C24_QuotedRegions ==
    spr.op = "Sprintf" =>
        /\ C24_Verbatim
        /\ spr.args = <<>> => (spr.res.text = spr.query /\ spr.res.err = "")
        /\ (spr.args # <<>> /\ spr.res.err \notin C24_PlaceholderErrors) =>
            /\ Len(spr.res.log) = Len(spr.query)
            /\ (spr.res.err = "unclosed string or identifier")
                    <=> C24_Unclosed(spr.dialect, spr.query, 1, "")

C24_Witness ==
    /\ spr.op = "Sprintf"
    /\ spr.dialect = DialectSQLServer
    /\ spr.query = <<"[", "]", "]", "?">>
    /\ spr.args = <<PlainValue(7)>>
    /\ spr.res.text = spr.query
    /\ spr.res.err = "unclosed string or identifier"

\* C26: a scan pass that repeats the Scan/ScanField calls of the dry run in
\* the same order never fails on the type of the target: the target the dry
\* run registered for a destination has the type the scan pass reads for it.
C26_ScanTargetsMatch ==
    (row.sqlRows /\ rowLast.call.op \in {"Scan", "ScanField"}) =>
        /\ rowLast.err # "assert"
        /\ scanRegisters(rowLast.call.dest) = scanAsserts(rowLast.call.dest)

\* The destinations whose two passes agree are read without a failure.
C26_MatchingDestsScan ==
    (row.sqlRows /\ rowLast.call.op \in {"Scan", "ScanField"}
        /\ rowLast.call.dest \in {"*bool", "*string", "*custom"}) =>
            rowLast.err = "none"

====
